---------------------------- MODULE Spec2Model ----------------------------
(***************************************************************************)
(* BurnForge: interior-ballistics trajectory simulator (solve_ballistics)  *)
(* and its calibration engine (fit_vivacity_polynomial and friends).       *)
(*                                                                         *)
(* Numbers.  The program computes in floating point; the model computes    *)
(* on integer grids, keeping every branch, comparison and data flow of the *)
(* source:                                                                 *)
(*   burn fraction Z        thousandths (ZOne = 1.0)                       *)
(*   form function pi(Z)    thousandths                                    *)
(*   Lambda_base            hundredths  (fit bounds 0.01..0.15 = 1..15)    *)
(*   temperature            tenths of a kelvin                             *)
(*   temp. sensitivity      units of 0.0005 /K (fit bounds 1..10)          *)
(*   pressures              units of 1000 psi                              *)
(*   covolume               units of 0.0001 m3/kg (fit bounds 8..12)       *)
(*   h_base                 units of 500 W/m2K (fit bounds 1..20)          *)
(*   velocity               units of 10 fps (the 1e10 penalty is 10^9)     *)
(* The adaptive integrator is modelled by its accepted steps: one explicit *)
(* step per action, the right-hand side evaluated at the start and at the  *)
(* end of the step as scipy's rk_step does (f and f_new), the two events   *)
(* tested on the step and the event point taken on the chord of the step.  *)
(* exp(x) is taken to first order (1 + x) and fractional powers to the     *)
(* first power; x ** (2/3) is an integer cube root.                        *)
(***************************************************************************)
EXTENDS Integers, Sequences, FiniteSets, TLC

\* ------------------------------------------------------------------ bounds

\* Number of propellant charges (ladder steps) a dataset row may carry.
MaxCharge == 7

\* Objective evaluations of one minimize call.
MaxNfev == 10

\* ------------------------------------------------------- program constants

ZOne == 1000
\* Python's None, and a value that may be None: <<>> or <<value>>.
NoneVal == <<>>
Some(v) == <<v>>
Val(o) == o[1]
\* T_ref = 294.0 K, in tenths of a kelvin
T_ref == 2940
\* The objective's and the final recomputation's penalty (1e10 fps).
PENALTY == 1000000000
\* t_span = (0, 0.1) with max_step = 1e-5: the step budget of one integration
TSpanSteps == 24

Max(a, b) == IF a >= b THEN a ELSE b
Min(a, b) == IF a <= b THEN a ELSE b
Abs(a) == IF a >= 0 THEN a ELSE -a

\* Largest r with r^3 <= n, by bisection on lo..hi (lo^3 <= n < (hi+1)^3).
RECURSIVE CbrtSearch(_, _, _)
CbrtSearch(n, lo, hi) ==
    IF lo >= hi THEN lo
    ELSE LET mid == (lo + hi + 1) \div 2
         IN  IF mid * mid * mid <= n THEN CbrtSearch(n, mid, hi)
             ELSE CbrtSearch(n, lo, mid - 1)

\* (1 - Z) ** (2/3) in thousandths: cbrt((ZOne - Z)^2 * ZOne).
PowTwoThirds(oneMinusZ) == CbrtSearch(oneMinusZ * oneMinusZ * ZOne, 0, ZOne)

\* --------------------------------------------------------------- burn rate

\* form_function(Z, geometry): pi(Z) in thousandths.
form_function(Z, geometry) ==
    IF geometry \in {"spherical", "degressive"}
      THEN (IF Z < ZOne THEN PowTwoThirds(ZOne - Z) ELSE 0)
    ELSE IF geometry \in {"single-perf", "tubular_progressive", "single-perforated"}
      THEN (IF Z < 900 THEN ZOne + (3 * Z) \div 10 ELSE 0)
    ELSE IF geometry \in {"neutral", "solid_extruded"}
      THEN (IF Z < ZOne THEN ZOne - Z ELSE 0)
    ELSE IF geometry \in {"7-perf", "progressive"}
      THEN (IF Z < 900 THEN ZOne + Z ELSE 0)
    ELSE (IF Z < ZOne THEN ZOne - Z ELSE 0)

\* exp(sigma * (T - T_ref)) in percent; sigma = 0 gives exactly 100.
TempMultiplier(T_prop_K, sigma) ==
    IF sigma # 0 THEN Max(1, 100 + (sigma * (T_prop_K - T_ref)) \div 200) ELSE 100

\* a + b*Z + c*Z^2 + d*Z^3 in thousandths, for a 4-tuple of coefficients.
PolyValue(c4, Z) ==
    LET z2 == (Z * Z) \div ZOne
        z3 == (z2 * Z) \div ZOne
    IN  c4[1] * ZOne + c4[2] * Z + c4[3] * z2 + c4[4] * z3

\* calc_vivacity without the clamp of Z and without the return at Z >= 1.
VivacityUnclamped(Z0, Lambda_base, coeffs, T_prop_K, sigma, use_form_function, geometry, p_psi, alpha, use_hybrid, Lambda_base_hybrid, coeffs_hybrid) ==
    IF use_hybrid \/ use_form_function
      THEN [exc |-> "none", val |-> Lambda_base * TempMultiplier(T_prop_K, sigma) * form_function(Z0, geometry)]
    ELSE IF Len(coeffs) # 4 THEN [exc |-> "ValueError", val |-> 0]
    ELSE [exc |-> "none", val |-> Lambda_base * TempMultiplier(T_prop_K, sigma) * PolyValue(coeffs, Z0)]

\* calc_vivacity: [exc, val].  val is Lambda in units of 1e-7; exc is the
\* exception the call raises ("none" when it returns).  The polynomial branch
\* unpacks its coefficients into exactly four names (a, b, c, d = coeffs).
calc_vivacity(Z0, Lambda_base, coeffs, T_prop_K, sigma, use_form_function, geometry, p_psi, alpha, use_hybrid, Lambda_base_hybrid, coeffs_hybrid) ==
    LET Z == Max(0, Min(ZOne, Z0))
        temp_multiplier == TempMultiplier(T_prop_K, sigma)
        Lambda_temp_corrected == Lambda_base * temp_multiplier
        Lambda_pressure_corrected ==
            IF p_psi # NoneVal /\ alpha > 0
              THEN Lambda_temp_corrected + alpha * Val(p_psi)
              ELSE Lambda_temp_corrected
    IN  IF Z >= ZOne THEN [exc |-> "none", val |-> 0]
        ELSE IF use_hybrid THEN
            IF Len(coeffs_hybrid) # 4 THEN [exc |-> "ValueError", val |-> 0]
            ELSE [exc |-> "none",
                  val |-> Lambda_pressure_corrected * form_function(Z, geometry)
                          + Lambda_base_hybrid * temp_multiplier
                            * PolyValue(coeffs_hybrid, Z)]
        ELSE IF use_form_function THEN
            [exc |-> "none", val |-> Lambda_pressure_corrected * form_function(Z, geometry)]
        ELSE IF Len(coeffs) # 4 THEN [exc |-> "ValueError", val |-> 0]
        ELSE [exc |-> "none", val |-> Lambda_temp_corrected * PolyValue(coeffs, Z)]

\* np.linspace(0, 0.99, n_points, endpoint=False)[k]: the end point left out.
LinspaceEndpointExcluded(k, n_points) == (990 * k) \div n_points

\* np.linspace(0, 0.99, n_points)[k], k = 0..n_points-1, in thousandths.
LinspaceZ(k, n_points) == (990 * k) \div (n_points - 1)

\* validate_vivacity_positive: [exc, ok].  Samples Z in order and stops at
\* the first non-positive value; an exception of calc_vivacity propagates.
RECURSIVE ValidateFrom(_, _, _, _, _, _, _, _, _, _, _, _)
ValidateFrom(k, Lambda_base, coeffs, T_prop_K, sigma, n_points, use_form_function, geometry, alpha, use_hybrid, Lambda_base_hybrid, coeffs_hybrid) ==
    IF k >= n_points THEN [exc |-> "none", ok |-> TRUE]
    ELSE LET viv == calc_vivacity(LinspaceZ(k, n_points), Lambda_base, coeffs, T_prop_K,
                                  sigma, use_form_function, geometry, NoneVal, alpha,
                                  use_hybrid, Lambda_base_hybrid, coeffs_hybrid)
         IN  IF viv.exc # "none" THEN [exc |-> viv.exc, ok |-> FALSE]
             ELSE IF viv.val <= 0 THEN [exc |-> "none", ok |-> FALSE]
             ELSE ValidateFrom(k + 1, Lambda_base, coeffs, T_prop_K, sigma, n_points,
                               use_form_function, geometry, alpha, use_hybrid,
                               Lambda_base_hybrid, coeffs_hybrid)

validate_vivacity_positive(Lambda_base, coeffs, T_prop_K, sigma, n_points, use_form_function, geometry, alpha) ==
    ValidateFrom(0, Lambda_base, coeffs, T_prop_K, sigma, n_points, use_form_function,
                 geometry, alpha, FALSE, 0, <<0, 0, 0, 0>>)


\* ----------------------------------------------------------- configuration

\* BallisticsConfig / PropellantProperties / BulletProperties values that do
\* not vary in the model (the model's units).
bullet_mass == 10
bore_area == 1
cartridge_overall_length_in == 2
bulk_density == 1
force == 40
temp_0 == 30
T_wall == 5
secondary_work_mu == 3
Theta == 2
PhiNum == 9
PhiDen == 10
GammaM1Den == 4
G_ACCEL == 4
p_initial_psi == 4
LamDiv == 60000
HtDiv == 2500
EhDiv == 50
CovDiv == 50
\* square inches in a square foot: the / 144 of the gas temperature
SqInPerSqFt == 144

\* effective_barrel_length_in = barrel_length_in - cartridge_overall_length_in
effective_barrel_length_in(config) ==
    config.barrel_length_in - cartridge_overall_length_in

\* (temperature_f - 32) * 5 / 9 + 273.15, in tenths of a kelvin
SolverTempK(temperature_f) == ((temperature_f - 32) * 50) \div 9 + 2731
\* temperature_f * 5 / 9 + 255.372, in tenths of a kelvin
FitTempK(temperature_f) == (temperature_f * 50) \div 9 + 2554

\* --------------------------------------------------------- solve_ballistics

\* V_0 = V_C - C / bulk_density
InitialVolume(config) ==
    config.case_volume_gr_h2o - config.charge_mass_gr \div bulk_density

\* The entry of solve_ballistics with `if V_0 < 0` in the place of line 130.
SolveEntryExcNegativeOnly(config) ==
    IF InitialVolume(config) < 0 THEN "ValueError"
    ELSE IF config.heat_loss_model # "convective" THEN "NotImplementedError"
    ELSE "none"

\* The exception solve_ballistics raises before integrating, "none" if none:
\* the V_0 check, then the heat-loss model selection.
SolveEntryExc(config) ==
    IF InitialVolume(config) <= 0 THEN "ValueError"
    ELSE IF config.heat_loss_model # "convective" THEN "NotImplementedError"
    ELSE "none"

\* Heat loss E_h of ode_system and compute_pressure (same expressions).
HeatLoss(Z, v, x, config) ==
    LET C == config.charge_mass_gr
        volume == InitialVolume(config) + bore_area * x
        T_1 == SolverTempK(config.temperature_f) \div 1000
        m_gasZ == IF Z > 1 THEN C * Z ELSE C
        P_estimate == IF volume > 0 /\ Z > 1
                        THEN Max(p_initial_psi, (C * Z * force) \div (ZOne * volume))
                        ELSE p_initial_psi
        \* (P_estimate * volume / 144) / (m_gas * R_specific), R_specific = F / T_0
        T_gas0 == IF m_gasZ > 0
                    THEN (temp_0 * P_estimate * volume * ZOne)
                           \div (SqInPerSqFt * m_gasZ * force)
                    ELSE T_1
        T_gas == Max(T_1, Min(T_gas0, (temp_0 * 3) \div 2))
        v_gas == Max(Abs(v), 1)
        h_t == (config.h_base * P_estimate * T_gas * v_gas) \div HtDiv
        delta_T == Max(T_gas - T_wall, 0)
    IN  IF config.heat_loss_model # "convective"
          THEN (38 * (temp_0 - T_1) * Z) \div (ZOne * 10)
          ELSE IF x > 0 THEN (h_t * bore_area * x * delta_T) \div EhDiv ELSE 0

\* m_eff = m + (C * Z) / mu
EffectiveMass(Z, config) ==
    bullet_mass + (config.charge_mass_gr * Z) \div (ZOne * secondary_work_mu)

\* (gamma - 1) * (kinetic_energy + E_h + Theta * x)
EnergyLoss(Z, v, x, config) ==
    ((EffectiveMass(Z, config) * v * v) \div (2 * G_ACCEL)
        + HeatLoss(Z, v, x, config) + Theta * x) \div GammaM1Den

\* V_free = volume - covolume * C * Z
FreeVolume(Z, x, config) ==
    InitialVolume(config) + bore_area * x
      - (config.propellant.covolume_m3_per_kg * config.charge_mass_gr * Z)
          \div (CovDiv * ZOne)

\* The pressure branch of ode_system: [P, branch].  P_const and
\* volume_at_burnout are the closure variables as the right-hand side sees
\* them when it is called.
OdePressure(Z, v, x, config, Pc, vab) ==
    LET C == config.charge_mass_gr
        volume == InitialVolume(config) + bore_area * x
        V_free == FreeVolume(Z, x, config)
        gasE == (C * Z * force) \div ZOne
        energy_loss == EnergyLoss(Z, v, x, config)
    IN  IF Z >= ZOne /\ Pc # NoneVal THEN
            IF vab # NoneVal THEN
                LET V_free_burnout ==
                      Val(vab) - (config.propellant.covolume_m3_per_kg * C) \div CovDiv
                IN  IF V_free > 0 /\ V_free_burnout > 0
                      THEN [P |-> (Val(Pc) * V_free_burnout) \div V_free, branch |-> "polytropic"]
                      ELSE [P |-> p_initial_psi, branch |-> "polytropic"]
            ELSE [P |-> p_initial_psi, branch |-> "polytropic"]
        ELSE IF Z < 1 THEN [P |-> p_initial_psi, branch |-> "initial"]
        ELSE IF V_free > 0
          THEN [P |-> Max(p_initial_psi, (gasE - energy_loss) \div V_free),
                branch |-> "balance"]
        ELSE IF volume > 0
          THEN [P |-> Max(p_initial_psi, (gasE - energy_loss) \div volume),
                branch |-> "balance"]
        ELSE [P |-> p_initial_psi, branch |-> "balance"]

\* ode_system(t, y): the derivative [dZ, dv, dx] with the pressure and the
\* pressure branch it used.  The burn rate is always asked in form-function
\* mode (use_form_function=True), with the pressure correction alpha.
ode_system(y, config, Pc, vab) ==
    LET Z == Max(0, Min(ZOne, y[1]))
        v == y[2]
        x == y[3]
        pr == OdePressure(Z, v, x, config, Pc, vab)
        P == pr.P
        Lambda_Z == calc_vivacity(Z, config.propellant.Lambda_base,
                        config.propellant.poly_coeffs,
                        SolverTempK(config.temperature_f),
                        config.propellant.temp_sensitivity_sigma_per_K,
                        TRUE, config.propellant.grain_geometry, Some(P),
                        config.propellant.alpha, FALSE, 0, <<0, 0, 0, 0>>).val
        L_eff == effective_barrel_length_in(config)
        m_eff == EffectiveMass(Z, config)
        P_effective == Max(0, P - config.bore_friction_psi)
    IN  [dZ |-> (Lambda_Z * P) \div LamDiv,
         dv |-> IF P > config.start_pressure_psi /\ x < L_eff
                  THEN (G_ACCEL * ((bore_area * PhiNum * P_effective) \div PhiDen - Theta))
                         \div m_eff
                  ELSE 0,
         dx |-> IF x < L_eff THEN v ELSE 0,
         P |-> P, branch |-> pr.branch, Z |-> Z]

\* compute_pressure(Z_val, v_val, x_val): the post-integration helper.
compute_pressure(Z_val0, v_val, x_val, config, Pc, vab) ==
    LET Z_val == Max(0, Min(ZOne, Z_val0))
        C == config.charge_mass_gr
        volume_val == InitialVolume(config) + bore_area * x_val
        V_free_val == FreeVolume(Z_val, x_val, config)
        gasE == (C * Z_val * force) \div ZOne
        energy_loss_val == EnergyLoss(Z_val, v_val, x_val, config)
    IN  IF Z_val >= ZOne /\ Pc # NoneVal THEN
            IF vab # NoneVal THEN
                LET V_free_burnout_val ==
                      Val(vab) - (config.propellant.covolume_m3_per_kg * C) \div CovDiv
                IN  IF V_free_val > 0 /\ V_free_burnout_val > 0
                      THEN (Val(Pc) * V_free_burnout_val) \div V_free_val
                      ELSE 0
            ELSE 0
        ELSE IF V_free_val > 0 THEN Max(0, (gasE - energy_loss_val) \div V_free_val)
        ELSE IF volume_val > 0 THEN Max(0, (gasE - energy_loss_val) \div volume_val)
        ELSE 0

\* burnout_event(t, y) = y[0] - 1.0 and muzzle_event(t, y) = y[2] - L_eff,
\* both terminal with direction = 1: active on a step when the event
\* function is <= 0 at its start and >= 0 at its end (an event function that
\* is 0 at both ends is active).
burnout_event(y) == y[1] - ZOne
muzzle_event(y, config) == y[3] - effective_barrel_length_in(config)
EventActive(g_old, g_new) == g_old <= 0 /\ g_new >= 0

\* The root of an active event is at the fraction (0 - g_old) / ChordDen of
\* the step; with g_old = 0 the root is the start of the step.
ChordDen(g_old, g_new) == IF g_new = g_old THEN 1 ELSE g_new - g_old

\* The point of the chord from y_old to y_new where g crosses zero.
ChordPoint(y_old, y_new, g_old, g_new) ==
    [i \in 1..3 |-> y_old[i] + ((y_new[i] - y_old[i]) * (0 - g_old)) \div ChordDen(g_old, g_new)]

\* One accepted integrator step from y with derivative f (its value at y):
\* the new point, the events found on the step, and where the run stands.
\* With several terminal events on one step the earliest in time ends the
\* run and the later ones are not recorded; of two roots at the same time
\* the burnout event, first in the events list, is the one kept.
IntegratorStep(y, f, config) ==
    LET y_new == <<y[1] + f.dZ, y[2] + f.dv, y[3] + f.dx>>
        gb0 == burnout_event(y)
        gb1 == burnout_event(y_new)
        gm0 == muzzle_event(y, config)
        gm1 == muzzle_event(y_new, config)
        burn == EventActive(gb0, gb1)
        muz == EventActive(gm0, gm1)
        \* burnout is first when its crossing fraction is the smaller one
        burnFirst == burn /\ (~muz \/ (0 - gb0) * ChordDen(gm0, gm1) <= (0 - gm0) * ChordDen(gb0, gb1))
        muzFirst == muz /\ (~burn \/ (0 - gm0) * ChordDen(gb0, gb1) < (0 - gb0) * ChordDen(gm0, gm1))
    IN  [y_new |-> y_new,
         burnout |-> burnFirst,
         muzzle |-> muzFirst,
         terminal |-> burn \/ muz,
         \* the root that ends the run is the start of the step (t = t_old)
         at_start |-> (burnFirst /\ gb0 = 0) \/ (muzFirst /\ gm0 = 0),
         y_end |-> IF burnFirst THEN ChordPoint(y, y_new, gb0, gb1)
                   ELSE IF muzFirst THEN ChordPoint(y, y_new, gm0, gm1)
                   ELSE y_new]


\* One pass of the post-integration loop body for trace point y_i: the peak
\* pressure and the closure variables after it.
PeakLoopBody(y_i, config, peak, Pc, vab) ==
    LET P_i == compute_pressure(y_i[1], y_i[2], y_i[3], config, Pc, vab)
        Z_i_clamped == Max(0, Min(ZOne, y_i[1]))
        setNow == Z_i_clamped >= 999 /\ Pc = NoneVal
        volume_i == InitialVolume(config) + bore_area * y_i[3]
    IN  [peak_pressure |-> IF P_i > peak THEN P_i ELSE peak,
         P_const |-> IF setNow THEN Some(P_i * volume_i) ELSE Pc,
         volume_at_burnout |-> IF setNow THEN Some(volume_i) ELSE vab,
         assigned |-> setNow,
         P_i |-> P_i]

\* calc_muzzle_energy(bullet_mass_gr, muzzle_velocity_fps)
calc_muzzle_energy(mass, velocity) == (mass * velocity * velocity) \div 64

\* The results dictionary, built from the final state, the burnout event
\* point (NoneVal when the burnout event did not fire) and the closure
\* variables after the peak loop.  A key the code does not put in the
\* dictionary is NoneVal here.
BuildResults(config, y_final, t_final, burnout_state, peak, Pc, vab) ==
    LET burnout_distance == IF burnout_state = NoneVal THEN NoneVal ELSE Some(burnout_state[3])
    IN  [returned |-> TRUE,
         muzzle_velocity_fps |-> y_final[2],
         muzzle_energy_ft_lbs |-> calc_muzzle_energy(bullet_mass, y_final[2]),
         peak_pressure_psi |-> peak,
         muzzle_pressure_psi |->
             compute_pressure(y_final[1], y_final[2], y_final[3], config, Pc, vab),
         final_Z |-> y_final[1],
         final_x |-> y_final[3],
         total_time_s |-> t_final,
         burnout_distance_from_bolt_in |->
             IF y_final[1] >= 999
               THEN (IF burnout_distance # NoneVal
                       THEN Some(cartridge_overall_length_in + Val(burnout_distance))
                       ELSE Some(cartridge_overall_length_in + y_final[3]))
               ELSE NoneVal,
         muzzle_burn_percentage |->
             IF y_final[1] >= 999 THEN NoneVal ELSE Some(y_final[1] \div 10)]

\* Lines 520-532, return_trace=True: results["P"], the pressure of every
\* solution point, computed after the peak loop with the closure variables
\* the loop left.
PressureTrace(trace, config, Pc, vab) ==
    [i \in 1..Len(trace) |-> compute_pressure(trace[i][1], trace[i][2], trace[i][3], config, Pc, vab)]

\* No dictionary (the call raised, or has not returned yet).
NoResults == [returned |-> FALSE]

\* ---- solve_ballistics as a function of its argument (used by the fit) ----

\* solve_ivp that runs to a terminal event or to the end of t_span: the
\* trace of accepted points and the burnout event point.
RECURSIVE Integrate(_, _, _, _)
\* What follows step st, the n+1st: the end, or the next step.
AfterStep(st, n, trace, config) ==
    IF st.terminal \/ n + 1 >= TSpanSteps
      THEN [success |-> TRUE,
            trace |-> Append(trace, st.y_end),
            burnout_state |-> IF st.burnout THEN st.y_end ELSE NoneVal,
            steps |-> IF st.at_start THEN n ELSE n + 1]
      ELSE Integrate(st.y_new, n + 1, Append(trace, st.y_new), config)

Integrate(y, n, trace, config) ==
    AfterStep(IntegratorStep(y, ode_system(y, config, NoneVal, NoneVal), config),
              n, trace, config)

\* The post-integration loop from trace point i on; b is what the loop body
\* made of point i.
RECURSIVE PeakLoop(_, _, _, _, _, _)
PeakLoopFrom(i, trace, config, b) ==
    PeakLoop(i, trace, config, b.peak_pressure, b.P_const, b.volume_at_burnout)

PeakLoop(i, trace, config, peak, Pc, vab) ==
    IF i > Len(trace) THEN [peak_pressure |-> peak, P_const |-> Pc, volume_at_burnout |-> vab]
    ELSE PeakLoopFrom(i + 1, trace, config, PeakLoopBody(trace[i], config, peak, Pc, vab))

\* Lines 485-518: the dictionary from the solution and the loop's outcome.
SolveResults(config, sol, pk) ==
    [exc |-> "none",
     res |-> BuildResults(config, sol.trace[Len(sol.trace)], sol.steps,
                          sol.burnout_state, pk.peak_pressure, pk.P_const,
                          pk.volume_at_burnout)]

\* Lines 385-518: what solve_ballistics does with the solution.  Lines
\* 385-386: `if not sol.success: raise RuntimeError`.
AfterIntegration(config, sol) ==
    IF ~sol.success THEN [exc |-> "RuntimeError", res |-> NoResults]
    ELSE SolveResults(config, sol, PeakLoop(1, sol.trace, config, p_initial_psi, NoneVal, NoneVal))

\* Lines 374-383, solve_ivp(...): the solution object.  Whether the
\* integrator completes is not decided by the arguments of the model:
\* converges tells it.  An integrator that gives up returns the points it
\* has, with success False.
solve_ivp(config, converges) ==
    IF converges THEN Integrate(<<0, 0, 0>>, 0, << <<0, 0, 0>> >>, config)
    ELSE [success |-> FALSE, trace |-> << <<0, 0, 0>> >>, burnout_state |-> NoneVal, steps |-> 0]

\* solve_ballistics(config): [exc, res], with an integrator that completes
\* (converges) or gives up.
solve_ballistics(config, converges) ==
    IF SolveEntryExc(config) # "none" THEN [exc |-> SolveEntryExc(config), res |-> NoResults]
    ELSE AfterIntegration(config, solve_ivp(config, converges))

\* The integrator gives up on the runs whose charge mass is in fails.
Converges(config, fails) == config.charge_mass_gr \notin fails

\* ------------------------------------------------- fit_vivacity_polynomial

\* The fit_* flags and use_form_function of one call.
FlagNames == {"fit_temp_sensitivity", "fit_bore_friction", "fit_start_pressure",
              "fit_covolume", "fit_h_base", "fit_k_param", "fit_p_primer"}

\* Integer square root (np.sqrt on the model's grid).
RECURSIVE SqrtSearch(_, _, _)
SqrtSearch(n, lo, hi) ==
    IF lo >= hi THEN lo
    ELSE LET mid == (lo + hi + 1) \div 2
         IN  IF mid * mid <= n THEN SqrtSearch(n, mid, hi) ELSE SqrtSearch(n, lo, mid - 1)
ISqrt(n) == IF n <= 0 THEN 0 ELSE SqrtSearch(n, 0, 40000)

RECURSIVE SeqSum(_)
SeqSum(q) == IF q = <<>> THEN 0 ELSE q[1] + SeqSum(Tail(q))

RECURSIVE SeqMax(_)
SeqMax(q) == IF Len(q) = 1 THEN q[1] ELSE Max(q[1], SeqMax(Tail(q)))

\* load_data["charge_grains"].max()
MaxChargeOf(load_data) == SeqMax([i \in 1..Len(load_data.rows) |-> load_data.rows[i].charge_grains])

\* The entry validation without the test of lines 84-87 on the row count.
FitEntryExcColumnsOnly(load_data) ==
    IF ~({"charge_grains", "mean_velocity_fps"} \subseteq load_data.columns) THEN "ValueError"
    ELSE "none"

\* Lines 78-87: the exception the entry validation raises, "none" if none.
FitEntryExc(load_data) ==
    IF ~({"charge_grains", "mean_velocity_fps"} \subseteq load_data.columns) THEN "ValueError"
    ELSE IF Len(load_data.rows) < 3 THEN "ValueError"
    ELSE "none"

\* Lines 108-119: the max-pressure reference, taken from the row of the
\* highest charge when the data has a p_max_psi column.
PressureReference(load_data) ==
    IF "p_max_psi" \in load_data.columns
      THEN LET i == CHOOSE k \in 1..Len(load_data.rows) :
                      /\ load_data.rows[k].charge_grains = MaxChargeOf(load_data)
                      /\ \A j \in 1..(k - 1) :
                            load_data.rows[j].charge_grains # MaxChargeOf(load_data)
           IN  load_data.rows[i].p_max_psi
      ELSE NoneVal

\* Lines 127-182: the default initial guess, [exc, x0].  The polynomial
\* branch unpacks poly_coeffs into six names.
DefaultInitialGuess(config_base, flags, use_form_function) ==
    LET pc6 == config_base.propellant.poly_coeffs
        base == IF use_form_function
                  THEN <<config_base.propellant.Lambda_base, config_base.propellant.alpha>>
                  ELSE IF pc6[1] = 0 /\ pc6[2] = 0 /\ pc6[3] = 0 /\ pc6[4] = 0
                    THEN <<config_base.propellant.Lambda_base, 1, -1, 0, 0, pc6[5], pc6[6]>>
                    ELSE <<config_base.propellant.Lambda_base>> \o pc6
        sigma == config_base.propellant.temp_sensitivity_sigma_per_K
        g1 == IF "fit_temp_sensitivity" \in flags
                THEN <<IF sigma = 0 THEN 4 ELSE sigma>> ELSE <<>>
        g2 == IF "fit_bore_friction" \in flags THEN <<config_base.bore_friction_psi>> ELSE <<>>
        g3 == IF "fit_start_pressure" \in flags THEN <<config_base.start_pressure_psi>> ELSE <<>>
        g4 == IF "fit_covolume" \in flags
                THEN <<config_base.propellant.covolume_m3_per_kg>> ELSE <<>>
        g5 == IF "fit_h_base" \in flags THEN <<config_base.h_base>> ELSE <<>>
    IN  IF ~use_form_function /\ Len(pc6) # 6 THEN [exc |-> "ValueError", x0 |-> <<>>]
        ELSE [exc |-> "none", x0 |-> base \o g1 \o g2 \o g3 \o g4 \o g5]

\* Lines 184-223: the default bounds, [lower, upper].
DefaultBounds(flags, use_form_function) ==
    LET On(flag, v) == IF flag \in flags THEN <<v>> ELSE <<>>
    IN  [lower |-> (IF use_form_function THEN <<1, 0>> ELSE <<1, -2, -2, -2, -2, -1, -1>>)
                   \o On("fit_temp_sensitivity", 1) \o On("fit_bore_friction", 0)
                   \o On("fit_start_pressure", 1) \o On("fit_covolume", 8)
                   \o On("fit_h_base", 1) \o On("fit_k_param", 0),
         upper |-> (IF use_form_function THEN <<15, 5>> ELSE <<15, 2, 2, 2, 2, 1, 1>>)
                   \o On("fit_temp_sensitivity", 10) \o On("fit_bore_friction", 4)
                   \o On("fit_start_pressure", 12) \o On("fit_covolume", 12)
                   \o On("fit_h_base", 20) \o On("fit_k_param", 5)]

\* ------------------------------------------------------ _objective_function

\* Lines 252-281: the candidate vector unpacked, [exc, ov].  Python indexes
\* from 0; params[idx] is params[idx + 1] here and raises IndexError past the
\* end, and `a, b, c, d, e, f = params[1:7]` raises ValueError unless the
\* slice has six elements.  Lines 279 and 281 read config_base.k_param and
\* config_base.p_primer_psi when their flag is off: AttributeError when the
\* object has no such attribute.  The statements run in order, so the first
\* that raises decides the exception.
UnpackParams(params, config_base, flags, use_form_function) ==
    LET n == Len(params)
        idx0 == IF use_form_function THEN 1 ELSE 7
        F(flag) == IF flag \in flags THEN 1 ELSE 0
        i_ts == idx0
        i_bf == i_ts + F("fit_temp_sensitivity")
        i_sp == i_bf + F("fit_bore_friction")
        i_cv == i_sp + F("fit_start_pressure")
        i_hb == i_cv + F("fit_covolume")
        i_kp == i_hb + F("fit_h_base")
        i_pp == i_kp + F("fit_k_param")
        used == {i_ts : x \in {1} \cap {F("fit_temp_sensitivity")}}
                \cup {i_bf : x \in {1} \cap {F("fit_bore_friction")}}
                \cup {i_sp : x \in {1} \cap {F("fit_start_pressure")}}
                \cup {i_cv : x \in {1} \cap {F("fit_covolume")}}
                \cup {i_hb : x \in {1} \cap {F("fit_h_base")}}
        At(i) == params[i + 1]
    IN  IF n < 1 THEN [exc |-> "IndexError"]
        ELSE IF use_form_function /\ n < 2 THEN [exc |-> "IndexError"]
        ELSE IF ~use_form_function /\ n < 7 THEN [exc |-> "ValueError"]
        ELSE IF \E i \in used : i >= n THEN [exc |-> "IndexError"]
        ELSE IF "fit_k_param" \in flags /\ i_kp >= n THEN [exc |-> "IndexError"]
        ELSE IF "fit_k_param" \notin flags /\ config_base.k_param = NoneVal
          THEN [exc |-> "AttributeError"]
        ELSE IF "fit_p_primer" \in flags /\ i_pp >= n THEN [exc |-> "IndexError"]
        ELSE IF "fit_p_primer" \notin flags /\ config_base.p_primer_psi = NoneVal
          THEN [exc |-> "AttributeError"]
        ELSE [exc |-> "none",
              k_param |-> IF "fit_k_param" \in flags THEN At(i_kp)
                          ELSE Val(config_base.k_param),
              p_primer |-> IF "fit_p_primer" \in flags THEN At(i_pp)
                           ELSE Val(config_base.p_primer_psi),
              Lambda_base |-> At(0),
              coeffs |-> IF use_form_function THEN <<1, 0, 0, 0>>
                         ELSE <<At(1), At(2), At(3), At(4), At(5), At(6)>>,
              alpha |-> IF use_form_function THEN At(1) ELSE 0,
              temp_sens |-> IF "fit_temp_sensitivity" \in flags THEN At(i_ts)
                            ELSE config_base.propellant.temp_sensitivity_sigma_per_K,
              bore_fric |-> IF "fit_bore_friction" \in flags THEN At(i_bf)
                            ELSE config_base.bore_friction_psi,
              start_p |-> IF "fit_start_pressure" \in flags THEN At(i_sp)
                          ELSE config_base.start_pressure_psi,
              covolume |-> IF "fit_covolume" \in flags THEN At(i_cv)
                           ELSE config_base.propellant.covolume_m3_per_kg,
              h_base |-> IF "fit_h_base" \in flags THEN At(i_hb) ELSE config_base.h_base]

\* copy.copy in the place of copy.deepcopy: the clone's propellant is the
\* original's.
ShallowCopy(config_base) == [clone |-> config_base, base |-> config_base, shared |-> TRUE]

\* copy(obj) of fitting.py, which is copy.deepcopy (line 10): the clone
\* shares no object with the original.  An object pair is [clone, base,
\* shared]: shared says that clone.propellant is base.propellant, the same
\* object, so that a write through one shows in the other.
copy(config_base) == [clone |-> config_base, base |-> config_base, shared |-> FALSE]

\* config.propellant = copy(config.propellant): a propellant object of its own.
CopyPropellant(o) == [o EXCEPT !.shared = FALSE]

\* config.<field> = value
SetAttr(o, field, value) == [o EXCEPT !.clone[field] = value]

\* config.propellant.<field> = value
SetPropellantAttr(o, field, value) ==
    IF o.shared
      THEN [o EXCEPT !.clone.propellant[field] = value, !.base.propellant[field] = value]
      ELSE [o EXCEPT !.clone.propellant[field] = value]

\* `if cond: config.<field> = value` and `if cond: config.propellant.<field> = value`
SetAttrIf(cond, o, field, value) == IF cond THEN SetAttr(o, field, value) ELSE o
SetPropellantAttrIf(cond, o, field, value) ==
    IF cond THEN SetPropellantAttr(o, field, value) ELSE o

\* Lines 304-322: the configuration object handed to solve_ballistics for
\* one row, with the caller's configuration as it is afterwards.
RowConfig(config_base, row, ov, flags, use_form_function) ==
    LET c1 == SetAttr(copy(config_base), "charge_mass_gr", row.charge_grains)
        c2 == CopyPropellant(c1)
        c3 == SetPropellantAttr(c2, "Lambda_base", ov.Lambda_base)
        c4 == SetPropellantAttr(c3, "poly_coeffs", ov.coeffs)
        c5 == SetPropellantAttrIf(use_form_function, c4, "alpha", ov.alpha)
        c6 == SetAttr(c5, "use_form_function", Some(use_form_function))
        c7 == SetPropellantAttrIf("fit_temp_sensitivity" \in flags, c6,
                                  "temp_sensitivity_sigma_per_K", ov.temp_sens)
        c8 == SetPropellantAttrIf("fit_covolume" \in flags, c7,
                                  "covolume_m3_per_kg", ov.covolume)
        c9 == SetAttrIf("fit_bore_friction" \in flags, c8, "bore_friction_psi", ov.bore_fric)
    IN  SetAttrIf("fit_start_pressure" \in flags, c9, "start_pressure_psi", ov.start_p)

\* Lines 332-342: the weight of a row (charge fraction, in percent, over the
\* measurement variance when there is one).
ObjectiveWeight(row, max_charge) ==
    LET charge_weight == (100 * row.charge_grains) \div max_charge
    IN  IF row.velocity_sd # NoneVal /\ Val(row.velocity_sd) > 0
          THEN charge_weight \div (Val(row.velocity_sd) * Val(row.velocity_sd))
          ELSE charge_weight

\* `except ValueError` in the place of line 344.
CatchesValueErrorOnly(e) == e = "ValueError"

\* Line 344, `except Exception`: the exception types the row loop catches.
ObjectiveCatches(e) == TRUE

\* The row loop entered whatever validate_vivacity_positive answered.
GateAlwaysOpen(valid) == TRUE

\* Lines 285-295, `if not validate_vivacity_positive(...): return 1e10`: the
\* row loop is entered only with a positive vivacity.
ObjectiveGate(valid) == valid.ok

\* Lines 300-346: the row loop from row i on.  acc carries the residuals,
\* the weights, the configurations handed to solve_ballistics so far and the
\* caller's configuration.  failed: the simulator raised for a row; exc: the
\* exception that the loop did not catch.
RECURSIVE ObjectiveRows(_, _, _, _, _, _, _)

\* Lines 324-346 for row i: o is the row's configuration object, r what
\* solve_ballistics made of it.
ObjectiveRowSolved(i, load_data, ov, flags, use_form_function, acc, o, r, fails) ==
    IF r.exc # "none"
      THEN [acc EXCEPT !.solved = Append(@, o.clone), !.base = o.base, !.failed = TRUE,
                       !.exc = IF ObjectiveCatches(r.exc) THEN "none" ELSE r.exc]
      ELSE ObjectiveRows(i + 1, load_data, ov, flags, use_form_function,
             [acc EXCEPT
                !.solved = Append(@, o.clone), !.base = o.base,
                !.residuals = Append(@, r.res.muzzle_velocity_fps
                                          - load_data.rows[i].mean_velocity_fps),
                !.weights = Append(@, ObjectiveWeight(load_data.rows[i],
                                                      MaxChargeOf(load_data)))], fails)

\* Line 326: solve_ballistics(config)
ObjectiveRow(i, load_data, ov, flags, use_form_function, acc, o, fails) ==
    ObjectiveRowSolved(i, load_data, ov, flags, use_form_function, acc, o,
                       solve_ballistics(o.clone, Converges(o.clone, fails)), fails)

ObjectiveRows(i, load_data, ov, flags, use_form_function, acc, fails) ==
    IF i > Len(load_data.rows) THEN acc
    ELSE ObjectiveRow(i, load_data, ov, flags, use_form_function, acc,
                      RowConfig(acc.base, load_data.rows[i], ov, flags, use_form_function), fails)

\* Lines 348-356: the weighted RMSE.
WeightedRmse(residuals, weights) ==
    LET n == Len(residuals)
        sw == SeqSum(weights)
    IN  IF sw > 0
          THEN ISqrt(SeqSum([i \in 1..n |-> weights[i] * residuals[i] * residuals[i]]) \div sw)
          ELSE ISqrt(SeqSum([i \in 1..n |-> residuals[i] * residuals[i]]) \div n)

\* Lines 360-384: the configuration object of the pressure-penalty run, with
\* the caller's configuration as it is afterwards.
MaxChargeConfig(config_base, max_charge, ov, flags, use_form_function) ==
    LET c1 == SetAttr(copy(config_base), "charge_mass_gr", max_charge)
        c2 == SetAttr(c1, "max_charge_gr", Some(max_charge))
        c3 == SetPropellantAttr(c2, "Lambda_base", ov.Lambda_base)
        c4 == SetPropellantAttr(c3, "poly_coeffs", ov.coeffs)
        c5 == SetPropellantAttrIf(use_form_function, c4, "alpha", ov.alpha)
        c6 == SetPropellantAttrIf("fit_temp_sensitivity" \in flags, c5,
                                  "temp_sensitivity_sigma_per_K", ov.temp_sens)
        c7 == SetPropellantAttrIf("fit_covolume" \in flags, c6,
                                  "covolume_m3_per_kg", ov.covolume)
        c8 == SetAttrIf("fit_bore_friction" \in flags, c7, "bore_friction_psi", ov.bore_fric)
        c9 == SetAttrIf("fit_start_pressure" \in flags, c8, "start_pressure_psi", ov.start_p)
        c10 == SetAttrIf("fit_h_base" \in flags, c9, "h_base", ov.h_base)
        c11 == SetAttrIf("fit_k_param" \in flags, c10, "k_param", Some(ov.k_param))
    IN  SetAttrIf("fit_p_primer" \in flags, c11, "p_primer_psi", Some(ov.p_primer))

\* What validate_vivacity_positive answered.
Verdict(valid) == IF valid.ok THEN "ok" ELSE "failed"

\* What one objective evaluation did when it did not get to some step.
NoEval == [exc |-> "none", value |-> 0, params |-> <<>>, validated |-> "not_reached",
           solved |-> <<>>, row_failed |-> FALSE, penalty_solved |-> <<>>,
           log_exc |-> "none"]

\* The arguments of one _objective_function call, as one value.
ObjectiveCall(params, load_data, config_base, flags, use_form_function, grt_p_max_reference, include_pressure_penalty) ==
    [params |-> params, load_data |-> load_data, config_base |-> config_base,
     flags |-> flags, use_form_function |-> use_form_function,
     grt_p_max_reference |-> grt_p_max_reference,
     include_pressure_penalty |-> include_pressure_penalty]

\* An evaluation that did nothing yet.
EvalOf(call) == [NoEval EXCEPT !.params = call.params] @@ [base |-> call.config_base]

\* Line 360: `include_pressure_penalty and grt_p_max_reference is not None`
WithPenalty(call) == call.include_pressure_penalty /\ call.grt_p_max_reference # NoneVal

\* Lines 386-393: the pressure penalty from the max-charge run, in
\* hundredths (1.0, the penalty of a failed run, is 100).
PressurePenalty(result_max, ref) ==
    IF result_max.exc # "none" THEN 100
    ELSE (100 * (result_max.res.peak_pressure_psi - ref)
              * (result_max.res.peak_pressure_psi - ref)) \div (ref * ref)

\* Lines 395-396: combined_loss = weighted_rmse + 0.3 * pressure_penalty, in
\* hundredths, with the max-charge configuration object mc and the run
\* result_max of the pressure penalty.
ObjectiveCombined(call, valid, rows, mc, result_max) ==
    [EvalOf(call) EXCEPT
        !.value = 100 * WeightedRmse(rows.residuals, rows.weights)
                  + (3 * (IF WithPenalty(call)
                            THEN PressurePenalty(result_max, Val(call.grt_p_max_reference))
                            ELSE 0)) \div 10,
        !.validated = Verdict(valid),
        !.solved = rows.solved,
        !.penalty_solved = IF WithPenalty(call) THEN <<mc.clone>> ELSE <<>>,
        !.base = IF WithPenalty(call) THEN mc.base ELSE rows.base]

\* Line 387: solve_ballistics(max_charge_config)
ObjectivePenalised(call, valid, rows, mc, fails) ==
    ObjectiveCombined(call, valid, rows, mc, solve_ballistics(mc.clone, Converges(mc.clone, fails)))

\* Lines 344-384: after the row loop.
ObjectiveSimulated(call, ov, valid, rows, fails) ==
    IF rows.failed
      THEN [EvalOf(call) EXCEPT
               !.exc = rows.exc,
               !.value = IF rows.exc = "none" THEN PENALTY ELSE 0,
               !.validated = Verdict(valid), !.solved = rows.solved,
               !.row_failed = TRUE, !.base = rows.base]
      ELSE ObjectivePenalised(call, valid, rows,
               MaxChargeConfig(rows.base, MaxChargeOf(call.load_data), ov, call.flags,
                               call.use_form_function), fails)

\* Lines 285-303: after validate_vivacity_positive.
ObjectiveValidated(call, ov, valid, fails) ==
    IF valid.exc # "none"
      THEN [EvalOf(call) EXCEPT !.exc = valid.exc, !.validated = "raised"]
    ELSE IF ~ObjectiveGate(valid)
      THEN [EvalOf(call) EXCEPT !.value = PENALTY, !.validated = Verdict(valid)]
    ELSE ObjectiveSimulated(call, ov, valid,
             ObjectiveRows(1, call.load_data, ov, call.flags, call.use_form_function,
                 [residuals |-> <<>>, weights |-> <<>>, solved |-> <<>>,
                  failed |-> FALSE, exc |-> "none", base |-> call.config_base], fails), fails)

\* Lines 283-294: after the unpacking.
ObjectiveUnpacked(call, ov, fails) ==
    IF ov.exc # "none" THEN [EvalOf(call) EXCEPT !.exc = ov.exc]
    ELSE ObjectiveValidated(call, ov,
             validate_vivacity_positive(ov.Lambda_base, ov.coeffs,
                 FitTempK(call.config_base.temperature_f), ov.temp_sens, 50,
                 call.use_form_function, call.config_base.propellant.grain_geometry,
                 IF call.use_form_function THEN ov.alpha ELSE 0), fails)

\* _objective_function(params, ...): what one evaluation did and returned.
\*   exc         the exception that left the function ("none": it returned)
\*   value       the value returned, in hundredths of the velocity unit
\*               (weighted_rmse + 0.3 * pressure_penalty)
\*   validated   "ok", "failed" (validate_vivacity_positive returned False),
\*               "raised", or "not_reached"
\*   solved      the configurations handed to solve_ballistics by the row loop
\*   base        the caller's config_base object after the evaluation
_objective_function(params, load_data, config_base, flags, use_form_function, grt_p_max_reference, include_pressure_penalty, fails) ==
    ObjectiveUnpacked(
        ObjectiveCall(params, load_data, config_base, flags, use_form_function,
                      grt_p_max_reference, include_pressure_penalty),
        UnpackParams(params, config_base, flags, use_form_function), fails)

\* Line 420: the wrapper logs every tenth evaluation.
LogEvery == 10

\* The fit_* flags that lines 437-460 log, in the order of the code
\* (fit_p_primer is not logged).
LoggedFlags == <<"fit_temp_sensitivity", "fit_bore_friction", "fit_start_pressure",
                 "fit_covolume", "fit_h_base", "fit_k_param">>

\* Lines 422-462, the logging string: the exception its construction raises.
\* params[0] and params[1] are read; `a, b, c, d = params[1:5]` needs four
\* values; each logged flag that is on reads the next of params[5],
\* params[6], ... whatever the mode.
LoggingExc(params, flags, use_form_function) ==
    LET m == Cardinality({i \in 1..Len(LoggedFlags) : LoggedFlags[i] \in flags})
    IN  IF Len(params) < 1 THEN "IndexError"
        ELSE IF use_form_function /\ Len(params) < 2 THEN "IndexError"
        ELSE IF ~use_form_function /\ Len(params) < 5 THEN "ValueError"
        ELSE IF m > 0 /\ Len(params) < 5 + m THEN "IndexError"
        ELSE "none"

\* Lines 398-465, objective_with_logging(params) on its count-th call, ev
\* being what _objective_function did: an exception of the objective leaves
\* the wrapper before the count; log_exc is the exception of the logging.
objective_with_logging(params, count, verbose, flags, use_form_function, ev) ==
    IF ev.exc # "none" THEN ev
    ELSE [ev EXCEPT !.log_exc = IF verbose /\ count % LogEvery = 0
                                  THEN LoggingExc(params, flags, use_form_function)
                                  ELSE "none"]

\* ------------------------------------------------------- scipy minimize

\* The bounds clip x0 into the box (L-BFGS-B).
Clip(x, lower, upper) == [i \in 1..Len(x) |-> Max(lower[i], Min(upper[i], x[i]))]

\* The trial points around x: one coordinate moved by one grid step, inside
\* the box (finite-difference and line-search points of L-BFGS-B).
TrialPoints(x, lower, upper) ==
    { z \in { [x EXCEPT ![i] = @ + d] : i \in 1..Len(x), d \in {-1, 1} } :
        \A i \in 1..Len(x) : lower[i] <= z[i] /\ z[i] <= upper[i] }

\* The coordinates that the bounds leave free to move around x.
FreeCoordinates(x, lower, upper) ==
    { i \in 1..Len(x) : \E z \in TrialPoints(x, lower, upper) : z[i] # x[i] }

\* The trial points of the k-th evaluation after the first: the finite
\* differences of L-BFGS-B move one coordinate after the other, so the
\* evaluations take the free coordinates in turn.
ProbePoints(x, lower, upper, k) ==
    LET free == FreeCoordinates(x, lower, upper)
        turn == IF free = {} THEN 0 ELSE ((k - 1) % Cardinality(free)) + 1
    IN  { z \in TrialPoints(x, lower, upper) :
            \E i \in free : z[i] # x[i] /\ Cardinality({b \in free : b <= i}) = turn }

\* minimize(...) entry: x0 and bounds of different lengths raise ValueError;
\* zip() cuts the bounds pair to the shorter of lower and upper.
MinimizeEntryExc(x0, lower, upper) ==
    IF Len(x0) # Min(Len(lower), Len(upper)) THEN "ValueError" ELSE "none"

\* ----------------------------------------- fit_vivacity_polynomial, the tail

NoFit == [returned |-> FALSE]

\* Lines 476-512: opt_result.x unpacked, [exc, ...fitted values as options].
ExtractFit(x, flags, use_form_function) ==
    LET n == Len(x)
        idx0 == IF use_form_function THEN 2 ELSE 5
        F(flag) == IF flag \in flags THEN 1 ELSE 0
        i_ts == idx0
        i_bf == i_ts + F("fit_temp_sensitivity")
        i_sp == i_bf + F("fit_bore_friction")
        i_cv == i_sp + F("fit_start_pressure")
        i_hb == i_cv + F("fit_covolume")
        i_kp == i_hb + F("fit_h_base")
        used == {i_ts : k \in {1} \cap {F("fit_temp_sensitivity")}}
                \cup {i_bf : k \in {1} \cap {F("fit_bore_friction")}}
                \cup {i_sp : k \in {1} \cap {F("fit_start_pressure")}}
                \cup {i_cv : k \in {1} \cap {F("fit_covolume")}}
                \cup {i_hb : k \in {1} \cap {F("fit_h_base")}}
                \cup {i_kp : k \in {1} \cap {F("fit_k_param")}}
        At(i) == x[i + 1]
        Opt(flag, i) == IF flag \in flags THEN Some(At(i)) ELSE NoneVal
    IN  IF n < 1 THEN [exc |-> "IndexError"]
        ELSE IF use_form_function /\ n < 2 THEN [exc |-> "IndexError"]
        ELSE IF ~use_form_function /\ n < 7 THEN [exc |-> "ValueError"]
        ELSE IF \E i \in used : i >= n THEN [exc |-> "IndexError"]
        ELSE [exc |-> "none",
              Lambda_base_fit |-> At(0),
              coeffs_fit |-> IF use_form_function THEN <<0, 0, 0, 0, 0, 0>>
                             ELSE <<At(1), At(2), At(3), At(4), At(5), At(6)>>,
              alpha_fit |-> IF use_form_function THEN Some(At(1)) ELSE NoneVal,
              temp_sens_fit |-> Opt("fit_temp_sensitivity", i_ts),
              bore_fric_fit |-> Opt("fit_bore_friction", i_bf),
              start_p_fit |-> Opt("fit_start_pressure", i_sp),
              covolume_fit |-> Opt("fit_covolume", i_cv),
              h_base_fit |-> Opt("fit_h_base", i_hb),
              k_param_fit |-> Opt("fit_k_param", i_kp)]

\* value if fitted, else the configuration's own
OrElse(o, dflt) == IF o # NoneVal THEN Val(o) ELSE dflt

\* Lines 563-579: config.propellant = PropellantProperties(...), built from
\* the configuration's own Lambda_base and poly_coeffs, the fields it is not
\* given at their defaults.
ReplacePropellantIf(cond, o, covolume, temp_sens) ==
    IF cond
      THEN [o EXCEPT !.shared = FALSE,
                     !.clone.propellant =
                        [Lambda_base |-> o.clone.propellant.Lambda_base,
                         poly_coeffs |-> o.clone.propellant.poly_coeffs,
                         grain_geometry |-> "spherical", alpha |-> 0,
                         covolume_m3_per_kg |-> covolume,
                         temp_sensitivity_sigma_per_K |-> temp_sens]]
      ELSE o

\* Lines 556-588: the configuration object of the final recomputation for
\* one row.  PropellantProperties(...) is rebuilt from the configuration's
\* own Lambda_base and poly_coeffs, with the fields it is not given at their
\* defaults.
FinalConfig(config_base, row, max_charge, fx, flags) ==
    LET c1 == SetAttr(copy(config_base), "charge_mass_gr", row.charge_grains)
        c2 == SetAttr(c1, "max_charge_gr", Some(max_charge))
        c3 == ReplacePropellantIf("fit_temp_sensitivity" \in flags \/ "fit_covolume" \in flags,
                  c2, OrElse(fx.covolume_fit, config_base.propellant.covolume_m3_per_kg),
                  OrElse(fx.temp_sens_fit,
                         config_base.propellant.temp_sensitivity_sigma_per_K))
        c4 == SetAttrIf("fit_bore_friction" \in flags, c3, "bore_friction_psi",
                        OrElse(fx.bore_fric_fit, config_base.bore_friction_psi))
        c5 == SetAttrIf("fit_start_pressure" \in flags, c4, "start_pressure_psi",
                        OrElse(fx.start_p_fit, config_base.start_pressure_psi))
        c6 == SetAttrIf("fit_h_base" \in flags, c5, "h_base",
                        OrElse(fx.h_base_fit, config_base.h_base))
    IN  SetAttrIf("fit_k_param" \in flags, c6, "k_param", fx.k_param_fit)

\* Lines 556-620: the final loop from row i on.  A ValueError or a
\* RuntimeError (NotImplementedError included) of the simulator gives the
\* row the prediction 1e10; any other exception leaves the function.
RECURSIVE FinalRows(_, _, _, _, _, _)

\* Line 611: `except (ValueError, RuntimeError)`.  NotImplementedError is a
\* subclass of RuntimeError, so the handler catches it too.
FinalCatches(e) == e \in {"ValueError", "RuntimeError", "NotImplementedError"}

\* Lines 601-609, 616: the weight of a row.
FinalWeight(row, caught) ==
    IF ~caught /\ row.velocity_sd # NoneVal /\ Val(row.velocity_sd) > 0
      THEN 100 \div (Val(row.velocity_sd) * Val(row.velocity_sd))
      ELSE 100

\* Lines 597-620 for row i with the prediction v_pred.
FinalRowPredicted(i, load_data, fx, flags, acc, o, caught, v_pred, fails) ==
    FinalRows(i + 1, load_data, fx, flags,
        [acc EXCEPT !.solved = Append(@, o.clone), !.base = o.base,
                    !.predicted_velocities = Append(@, v_pred),
                    !.residuals = Append(@, v_pred - load_data.rows[i].mean_velocity_fps),
                    !.weights = Append(@, FinalWeight(load_data.rows[i], caught))], fails)

\* Lines 590-616 for row i: o is the row's configuration object, r what
\* solve_ballistics made of it.
FinalRowSolved(i, load_data, fx, flags, acc, o, r, fails) ==
    IF r.exc # "none" /\ ~FinalCatches(r.exc)
      THEN [acc EXCEPT !.solved = Append(@, o.clone), !.base = o.base, !.exc = r.exc]
      ELSE FinalRowPredicted(i, load_data, fx, flags, acc, o, r.exc # "none",
                             IF r.exc # "none" THEN PENALTY ELSE r.res.muzzle_velocity_fps, fails)

\* Line 592: solve_ballistics(config)
FinalRow(i, load_data, fx, flags, acc, o, fails) ==
    FinalRowSolved(i, load_data, fx, flags, acc, o, solve_ballistics(o.clone, Converges(o.clone, fails)), fails)

FinalRows(i, load_data, fx, flags, acc, fails) ==
    IF i > Len(load_data.rows) THEN acc
    ELSE FinalRow(i, load_data, fx, flags, acc,
                  FinalConfig(acc.base, load_data.rows[i], MaxChargeOf(load_data), fx, flags), fails)

\* Lines 622-630: the weighted RMSE of the final residuals; a residual of a
\* penalty prediction makes it of the order of the penalty.
FinalRmse(residuals, weights) ==
    IF \E i \in 1..Len(residuals) : Abs(residuals[i]) >= PENALTY \div 2 THEN PENALTY
    ELSE WeightedRmse(residuals, weights)

\* A fit call that raised e, the caller's configuration being base.
FitRaised(e, base) == [exc |-> e, result |-> NoFit, solved |-> <<>>, base |-> base]

\* Lines 622-695: the dictionary returned.
FitRecomputed(fx, rows) ==
    IF rows.exc # "none" THEN FitRaised(rows.exc, rows.base)
    ELSE [exc |-> "none", solved |-> rows.solved, base |-> rows.base,
          result |->
            [returned |-> TRUE,
             Lambda_base |-> fx.Lambda_base_fit,
             coeffs |-> fx.coeffs_fit,
             rmse_velocity |-> FinalRmse(rows.residuals, rows.weights),
             residuals |-> rows.residuals,
             predicted_velocities |-> rows.predicted_velocities,
             alpha |-> fx.alpha_fit,
             temp_sensitivity_sigma_per_K |-> fx.temp_sens_fit,
             bore_friction_psi |-> fx.bore_fric_fit,
             h_base |-> fx.h_base_fit,
             start_pressure_psi |-> fx.start_p_fit,
             covolume_m3_per_kg |-> fx.covolume_fit]]

\* Lines 529-620: after the validation of line 521, whose answer is dropped.
\* Line 554 reads config_base.k_param when no k_param was fitted.
FitValidated(load_data, config_base, flags, fx, valid, fails) ==
    IF valid.exc # "none" THEN FitRaised(valid.exc, config_base)
    ELSE IF fx.k_param_fit = NoneVal /\ config_base.k_param = NoneVal
      THEN FitRaised("AttributeError", config_base)
    ELSE FitRecomputed(fx,
             FinalRows(1, load_data, fx, flags,
                 [exc |-> "none", predicted_velocities |-> <<>>, residuals |-> <<>>,
                  weights |-> <<>>, solved |-> <<>>, base |-> config_base], fails))

\* Lines 514-527: validate_vivacity_positive(Lambda_base_fit, coeffs_fit,
\* T_prop_K, temp_sens_check, n_points=100), in its default (polynomial) mode.
FitExtracted(load_data, config_base, flags, fx, fails) ==
    IF fx.exc # "none" THEN FitRaised(fx.exc, config_base)
    ELSE FitValidated(load_data, config_base, flags, fx,
             validate_vivacity_positive(fx.Lambda_base_fit, fx.coeffs_fit,
                 FitTempK(config_base.temperature_f),
                 OrElse(fx.temp_sens_fit, config_base.propellant.temp_sensitivity_sigma_per_K),
                 100, FALSE, "spherical", 0), fails)

\* Lines 476-695: what fit_vivacity_polynomial does with opt_result.x:
\* [exc, result, solved, base].
FitTail(x, load_data, config_base, flags, use_form_function, fails) ==
    FitExtracted(load_data, config_base, flags, ExtractFit(x, flags, use_form_function), fails)

\* --------------------------------------------------- fit_vivacity_sequential

\* `x if x else None` of lines 855 and 859 tests the truth value of x: None
\* and an empty sequence are false.  The bounds of the model are a pair of
\* sequences, and a pair is true whatever its entries.
Truthy(opt) == opt # NoneVal /\ Val(opt) # <<>>

\* Lines 855-865: the arguments of the Stage-1 call.
Stage1Args(initial_guess, bounds, verbose) ==
    [flags |-> {}, use_form_function |-> FALSE, include_pressure_penalty |-> FALSE,
     verbose |-> verbose,
     initial_guess |-> IF Truthy(initial_guess)
                         THEN Some(SubSeq(Val(initial_guess), 1, Min(5, Len(Val(initial_guess)))))
                         ELSE NoneVal,
     bounds |-> IF bounds # NoneVal
                  THEN Some([lower |-> SubSeq(Val(bounds).lower, 1, Min(5, Len(Val(bounds).lower))),
                             upper |-> SubSeq(Val(bounds).upper, 1, Min(5, Len(Val(bounds).upper)))])
                  ELSE NoneVal]

\* Lines 867-931: the arguments of the Stage-2 call, [exc, args]: the
\* Stage-1 values between zero-width bounds, h_base free.
Stage2Args(stage1_result, config_base, bounds, verbose) ==
    LET fitted_lambda == stage1_result.Lambda_base
        fitted_coeffs == stage1_result.coeffs
        h_base_initial == IF config_base.h_base # 0 THEN config_base.h_base ELSE 2
        fixed == <<fitted_lambda, fitted_coeffs[1], fitted_coeffs[2],
                   fitted_coeffs[3], fitted_coeffs[4]>>
        short == bounds # NoneVal
                   /\ (Len(Val(bounds).lower) < 6 \/ Len(Val(bounds).upper) < 6)
    IN  IF short THEN [exc |-> "IndexError"]
        ELSE [exc |-> "none",
              args |->
                [flags |-> {"fit_h_base"}, use_form_function |-> FALSE,
                 include_pressure_penalty |-> FALSE, verbose |-> verbose,
                 initial_guess |-> Some(Append(fixed, h_base_initial)),
                 bounds |-> Some(
                    [lower |-> Append(fixed, IF bounds # NoneVal
                                               THEN Val(bounds).lower[6] ELSE 1),
                     upper |-> Append(fixed, IF bounds # NoneVal
                                               THEN Val(bounds).upper[6] ELSE 20)])]]

NoSeq == [returned |-> FALSE]

\* Lines 933-943: stage2_result.copy() with both stage results added.
CombinedResult(stage1_result, stage2_result) ==
    [returned |-> TRUE, final |-> stage2_result,
     stage1_result |-> stage1_result, stage2_result |-> stage2_result]

\* ------------------------------------------- leave_one_out_cross_validation

\* load_data.drop(index=i).reset_index(drop=True), i counted from 0
Drop(load_data, i) ==
    [load_data EXCEPT !.rows = SubSeq(@, 1, i) \o SubSeq(@, i + 2, Len(@))]

\* deepcopy(config_base), line 745
deepcopy(config_base) == [clone |-> config_base, base |-> config_base, shared |-> FALSE]

\* setattr(test_config, param, value): the attribute is created when the
\* object has none of that name.
SetNewAttr(o, field, value) == [o EXCEPT !.clone = (field :> value) @@ @]

\* `if param in fit_result: setattr(test_config, param, fit_result[param])`
SetFitted(o, fit_result, param) ==
    IF fit_result[param] # NoneVal THEN SetNewAttr(o, param, Val(fit_result[param])) ELSE o

\* Lines 745-760: the configuration object of the held-out row.  The fitted
\* secondary parameters are set on the configuration object.
LooTestConfig(config_base, test_point, fit_result) ==
    SetFitted(SetFitted(SetFitted(SetFitted(SetFitted(
        SetPropellantAttr(
            SetPropellantAttr(
                SetAttr(deepcopy(config_base), "charge_mass_gr", test_point.charge_grains),
                "Lambda_base", fit_result.Lambda_base),
            "poly_coeffs", fit_result.coeffs),
        fit_result, "temp_sensitivity_sigma_per_K"), fit_result, "bore_friction_psi"),
        fit_result, "start_pressure_psi"), fit_result, "h_base"),
        fit_result, "covolume_m3_per_kg")

\* Lines 762-763 with the run r of the test configuration object o.
LooPredicted(o, r) ==
    [exc |-> r.exc, solved |-> o.clone, base |-> o.base,
     predicted |-> IF r.exc = "none" THEN Some(r.res.muzzle_velocity_fps) ELSE NoneVal]

\* Line 762: solve_ballistics(test_config)
LooSolve(o, fails) == LooPredicted(o, solve_ballistics(o.clone, Converges(o.clone, fails)))

\* Lines 745-763: the prediction for the held-out row, [exc, predicted,
\* solved, base].
LooPredict(config_base, test_point, fit_result, fails) ==
    LooSolve(LooTestConfig(config_base, test_point, fit_result), fails)

\* Lines 764-790: the entry of the fold with the prediction pr.
LooEntry(i, loo_data, config_base, fit_exc, pr) ==
    IF fit_exc = "none" /\ pr.exc = "none"
      THEN [exc |-> "none", base |-> pr.base,
            entry |-> [fold |-> i, charge |-> loo_data.rows[i + 1].charge_grains,
                       actual |-> loo_data.rows[i + 1].mean_velocity_fps,
                       predicted |-> pr.predicted,
                       error |-> Some(Val(pr.predicted)
                                      - loo_data.rows[i + 1].mean_velocity_fps)]]
    ELSE IF ~({"charge_grains", "mean_velocity_fps"} \subseteq loo_data.columns)
      THEN [exc |-> "KeyError", base |-> config_base]
    ELSE [exc |-> "none",
          base |-> IF fit_exc = "none" THEN pr.base ELSE config_base,
          entry |-> [fold |-> i, charge |-> loo_data.rows[i + 1].charge_grains,
                     actual |-> loo_data.rows[i + 1].mean_velocity_fps,
                     predicted |-> NoneVal, error |-> NoneVal]]

\* Lines 736-790: the entry of fold i (from 0), [exc, entry, base].  A fold
\* whose fit or prediction raised is recorded with NaN (NoneVal) values; the
\* handler itself reads the held-out row's two required columns.
LooFold(i, loo_data, config_base, fit_exc, fit_result, fails) ==
    LooEntry(i, loo_data, config_base, fit_exc,
             LooPredict(config_base, loo_data.rows[i + 1], fit_result, fails))

NoLoo == [returned |-> FALSE]

\* Lines 792-809: the statistics over the folds that gave a prediction.
LooResult(fold_results) ==
    LET valid == { k \in 1..Len(fold_results) : fold_results[k].predicted # NoneVal }
        sq == [k \in 1..Len(fold_results) |->
                 IF k \in valid
                   THEN Val(fold_results[k].error) * Val(fold_results[k].error) ELSE 0]
    IN  [returned |-> TRUE,
         loo_rmse |-> IF valid # {} THEN Some(ISqrt(SeqSum(sq) \div Cardinality(valid)))
                      ELSE NoneVal,
         fold_results |-> fold_results,
         n_folds |-> Len(fold_results),
         n_valid_folds |-> Cardinality(valid)]

\* ------------------------------------------------------------------ inputs

Propellant(L, geo, al) ==
    [Lambda_base |-> L, poly_coeffs |-> <<1, -1, 0, 0, 0, 0>>, grain_geometry |-> geo,
     alpha |-> al, covolume_m3_per_kg |-> 10, temp_sensitivity_sigma_per_K |-> 4]

Config(charge, caseVol, barrel, model, L, geo, al) ==
    [charge_mass_gr |-> charge, case_volume_gr_h2o |-> caseVol,
     barrel_length_in |-> barrel, temperature_f |-> 70, heat_loss_model |-> model,
     h_base |-> 4, bore_friction_psi |-> 0, start_pressure_psi |-> 4,
     use_form_function |-> NoneVal, max_charge_gr |-> NoneVal,
     k_param |-> NoneVal, p_primer_psi |-> NoneVal,
     propellant |-> Propellant(L, geo, al)]

\* No configuration (no call in progress).
NoConfig == [charge_mass_gr |-> 0]

\* Configurations handed to solve_ballistics directly: charges below, at and
\* above the case volume, barrels shorter than, as long as and longer than
\* the cartridge, loads that leave the muzzle within a thousandth of burnout
\* (their heat loss E_h is 0 at every point of the run), loads that
\* differ in their four polynomial coefficients only, and loads with a bore
\* friction below and above the chamber pressure.
SolveConfigs ==
    { Config(c, 8, b, m, L, g, 0) :
        c \in 4..MaxCharge + 2, b \in {1, 2, 14, 42}, m \in {"convective", "empirical"},
        L \in {5, 15}, g \in {"spherical", "7-perf"} }
    \cup { Config(2, 10, 42, "convective", 15, "spherical", 0),
           Config(3, 9, 42, "convective", 20, "spherical", 0),
           Config(4, 9, 42, "convective", 20, "spherical", 0),
           Config(4, 10, 30, "convective", 20, "spherical", 0) }
    \cup { [Config(5, 8, 14, "convective", 5, g, 0) EXCEPT !.propellant.poly_coeffs = c] :
              c \in {<<1, -1, 0, 0>>, <<1, 0, 0, 0>>, <<2, -1, 0, 0>>}, g \in {"spherical", "7-perf"} }
    \cup { [Config(5, 8, 14, "convective", L, "spherical", 0) EXCEPT !.bore_friction_psi = bf] :
              L \in {5, 15}, bf \in {2, 100} }

\* A row of a load ladder; velocity_sd and p_max_psi are NoneVal when the
\* DataFrame has no such column.
Row(c, v, sd, p) ==
    [charge_grains |-> c, mean_velocity_fps |-> v, velocity_sd |-> sd, p_max_psi |-> p]

Required == {"charge_grains", "mean_velocity_fps"}

\* A ladder of `n` rows from charge `c` up, velocities from `v` up.
Ladder(n, c, v, sd, p) ==
    [columns |-> Required \cup (IF sd # NoneVal THEN {"velocity_sd"} ELSE {})
                          \cup (IF p # NoneVal THEN {"p_max_psi"} ELSE {}),
     rows |-> [i \in 1..n |-> Row(c + i - 1, v + 3 * (i - 1), sd, p)]]

\* The base configurations of calibration calls: the propellant carries four
\* (props.py) or six polynomial coefficients.
FitConfig(m, g, ncoef) ==
    [Config(5, 8, 14, m, 5, g, 0) EXCEPT
        !.propellant.poly_coeffs = SubSeq(<<1, -1, 0, 0, 0, 0>>, 1, ncoef)]

\* A configuration object that carries the attributes k_param and
\* p_primer_psi, which lines 279, 281 and 554 of fitting.py read: the
\* BallisticsConfig of props.py declares neither (NoneVal: the object has no
\* such attribute), so they are there when the caller has set them on the
\* object.
WithPrimer(config_base, k, p) ==
    [config_base EXCEPT !.k_param = Some(k), !.p_primer_psi = Some(p)]

\* The base configurations of the calibration calls: as props.py builds
\* them, with both attributes set, and with k_param alone.
BaseConfigs(m, g, ncoef) ==
    { FitConfig(m, g, ncoef), WithPrimer(FitConfig(m, g, ncoef), 0, 0),
      [FitConfig(m, g, ncoef) EXCEPT !.k_param = Some(0)] }

FitArgs(flags, ff, pp, vb) ==
    [flags |-> flags, use_form_function |-> ff, include_pressure_penalty |-> pp,
     verbose |-> vb, initial_guess |-> NoneVal, bounds |-> NoneVal]

\* Flag sets of the calls with verbose off: no flag, one logged flag, the
\* flag that is not logged, and sets of four, five and all seven flags.
QuietFlagSets ==
    { {}, {"fit_h_base"}, {"fit_temp_sensitivity"}, {"fit_p_primer"},
      {"fit_temp_sensitivity", "fit_bore_friction", "fit_start_pressure", "fit_covolume"},
      {"fit_temp_sensitivity", "fit_bore_friction", "fit_start_pressure", "fit_covolume",
       "fit_h_base"},
      FlagNames }

\* Calls of fit_vivacity_polynomial, on configuration objects with and
\* without the attributes k_param and p_primer_psi: every combination of
\* the flags on one ladder with verbose on (the default), some of them with verbose off, a
\* few flag sets on the other data and configurations, and ladders with a
\* charge of 0 or a velocity that is not positive.
FitInputs ==
    { [load_data |-> Ladder(3, 4, 5, NoneVal, NoneVal), config_base |-> cb,
       args |-> FitArgs(f, ff, FALSE, TRUE)] :
        cb \in BaseConfigs("convective", "spherical", 6),
        f \in SUBSET FlagNames, ff \in BOOLEAN }
    \cup
    { [load_data |-> Ladder(3, 4, 5, NoneVal, NoneVal), config_base |-> cb,
       args |-> FitArgs(f, TRUE, FALSE, FALSE)] :
        cb \in BaseConfigs("convective", "spherical", 6), f \in QuietFlagSets }
    \cup
    { [load_data |-> d, config_base |-> cb, args |-> FitArgs(f, ff, pp, TRUE)] :
        cb \in { WithPrimer(FitConfig(m, g, n), 0, 0) :
                   m \in {"convective", "empirical"}, g \in {"spherical", "7-perf"},
                   n \in {4, 6} }
                 \cup { FitConfig("convective", "spherical", 6) },
        d \in { Ladder(3, 4, 5, Some(2), Some(12)), Ladder(2, 4, 5, NoneVal, NoneVal),
                Ladder(3, MaxCharge, 5, NoneVal, NoneVal),
                [Ladder(3, 4, 5, NoneVal, NoneVal) EXCEPT !.columns = {"charge_grains"}] },
        f \in {{}, {"fit_h_base"}}, ff \in BOOLEAN, pp \in BOOLEAN }
    \cup
    { [load_data |-> d, config_base |-> WithPrimer(FitConfig("convective", "spherical", 6), 0, 0),
       args |-> FitArgs({}, ff, FALSE, TRUE)] :
        d \in { Ladder(3, 0, 5, NoneVal, NoneVal), Ladder(3, 4, 0, NoneVal, NoneVal),
                Ladder(3, 4, -3, NoneVal, NoneVal) },
        ff \in BOOLEAN }

\* Calls of fit_vivacity_sequential: no guess, an empty guess and a guess
\* of six entries, with verbose on (the default) and off.
SeqInputs ==
    { [load_data |-> Ladder(3, 4, 5, NoneVal, NoneVal), config_base |-> cb,
       initial_guess |-> ig, bounds |-> b, verbose |-> vb] :
        cb \in { WithPrimer(FitConfig("convective", "spherical", 4), 0, 0),
                 WithPrimer(FitConfig("convective", "spherical", 6), 0, 0),
                 FitConfig("convective", "spherical", 6) },
        vb \in BOOLEAN,
        ig \in {NoneVal, Some(<<>>), Some(<<5, 1, -1, 0, 0, 4>>)},
        b \in {NoneVal, Some([lower |-> <<1, -2, -2, -2, -2, 1>>,
                              upper |-> <<15, 2, 2, 2, 2, 20>>])} }

\* Calls of leave_one_out_cross_validation, fit_kwargs with and without an
\* initial guess of the caller, on ladders with both required columns and
\* on ladders that lack one of them; fit_kwargs has no verbose entry (the
\* field is what line 739 passes).
LooInputs ==
    { [load_data |-> d, config_base |-> cb,
       args |-> FitArgs({}, ff, FALSE, FALSE)] :
        cb \in { WithPrimer(FitConfig("convective", "spherical", 6), 0, 0),
                 WithPrimer(FitConfig("convective", "7-perf", 6), 0, 0),
                 FitConfig("convective", "spherical", 6) },
        d \in { Ladder(4, 4, 5, NoneVal, NoneVal), Ladder(3, 4, 5, NoneVal, NoneVal) },
        ff \in BOOLEAN }
    \cup
    { [load_data |-> Ladder(4, 4, 5, NoneVal, NoneVal),
       config_base |-> WithPrimer(FitConfig("convective", "spherical", 6), 0, 0),
       args |-> [FitArgs({flag}, TRUE, FALSE, FALSE) EXCEPT !.initial_guess = Some(<<5, 0, 6>>)]] :
        flag \in {"fit_temp_sensitivity", "fit_h_base"} }
    \cup
    { [load_data |-> [Ladder(4, 4, 5, NoneVal, NoneVal) EXCEPT !.columns = cols],
       config_base |-> FitConfig("convective", "spherical", 6),
       args |-> FitArgs({}, TRUE, FALSE, FALSE)] :
        cols \in { {"charge_grains"}, {"mean_velocity_fps"} } }

\* What the integrator does during a calibration call: it completes every
\* run, or it gives up on the runs of one charge of the ladder.
IntegratorFailures == {{}, {5}}

\* ------------------------------------------------------------------- state

VARIABLES
    op,                 \* the API call in progress: "idle", "solve", ...
    pc,                 \* where that call stands
    config,             \* the configuration solve_ballistics was called with
    y,                  \* integrator state <<Z, v, x>>
    steps,              \* sol.t[-1]: the time reached, in accepted steps
    trace,              \* sol.y: the accepted points
    burnout_state,      \* sol.sol(t_events[0][0]), NoneVal if no burnout event
    rhs_log,            \* right-hand-side evaluations at Z >= 1: their branches
    P_const,            \* closure variable of solve_ballistics
    volume_at_burnout,  \* closure variable of solve_ballistics
    peak_pressure,      \* closure variable of solve_ballistics
    assignments,        \* how many times P_const has been assigned in this run
    loop_i,             \* index of the post-integration loop
    results,            \* the dictionary solve_ballistics returned, or NoneVal
    exc,                \* the exception the call raised, or "none"
    load_data,          \* the DataFrame fit_vivacity_polynomial was called with
    config_base,        \* the caller's configuration object, as it is now
    config_base_0,      \* the caller's configuration as it was at the API call
    fit_args,           \* flags, mode, initial_guess and bounds of the fit call
    x0, lower, upper,   \* initial guess and bounds handed to minimize
    opt_x, opt_fun,     \* the best point minimize has evaluated, and its value
    nfev,               \* objective evaluations so far
    evaluation,         \* what the last objective evaluation did
    fit_result,         \* the dictionary fit_vivacity_polynomial returned
    fit_exc,            \* the exception fit_vivacity_polynomial raised
    stage,              \* fit_vivacity_sequential: the stage in progress
    stage1_result,      \* fit_vivacity_sequential: the Stage-1 dictionary
    seq_result,         \* the dictionary fit_vivacity_sequential returned
    seq_bounds,         \* the bounds fit_vivacity_sequential was called with
    loo_data,           \* the DataFrame of the cross-validation call
    fold,               \* cross-validation: folds done
    fold_results,       \* cross-validation: the entries of the folds done
    loo_result,         \* the dictionary the cross-validation returned
    viv_call,           \* the arguments calc_vivacity was last called with
    viv_result,         \* what that call returned or raised
    validate_call,      \* the arguments validate_vivacity_positive was called with
    validate_result,    \* what that call returned or raised
    unsolved            \* the charge masses whose runs the integrator gives up
                        \* on during the calibration call in progress

solverVars == <<config, y, steps, trace, burnout_state, rhs_log, P_const,
                volume_at_burnout, peak_pressure, assignments, loop_i, results>>
fitVars == <<load_data, config_base, config_base_0, fit_args, x0, lower, upper,
             opt_x, opt_fun, nfev, evaluation, fit_result, fit_exc>>
seqVars == <<stage, stage1_result, seq_result, seq_bounds>>
looVars == <<loo_data, fold, fold_results, loo_result>>
envVars == <<unsolved>>
calibVars == <<fitVars, seqVars, looVars, envVars>>
vivVars == <<viv_call, viv_result, validate_call, validate_result>>
vars == <<op, pc, exc, solverVars, calibVars, vivVars>>

NoData == [columns |-> {}, rows |-> <<>>]
NoArgs == [flags |-> {}, use_form_function |-> FALSE, include_pressure_penalty |-> FALSE,
           verbose |-> FALSE,
           initial_guess |-> NoneVal, bounds |-> NoneVal]
NoEvaluation == NoEval @@ [base |-> NoConfig]

\* No calibration call in progress.
CalibIdle ==
    /\ load_data = NoData /\ config_base = NoConfig /\ config_base_0 = NoConfig
    /\ fit_args = NoArgs /\ x0 = <<>> /\ lower = <<>> /\ upper = <<>>
    /\ opt_x = <<>> /\ opt_fun = 0 /\ nfev = 0 /\ evaluation = NoEvaluation
    /\ fit_result = NoFit /\ fit_exc = "none"
    /\ stage = 0 /\ stage1_result = NoFit /\ seq_result = NoSeq /\ seq_bounds = NoneVal
    /\ loo_data = NoData /\ fold = 0 /\ fold_results = <<>> /\ loo_result = NoLoo
    /\ unsolved = {}

\* No solve_ballistics call in progress.
SolverIdle ==
    /\ config = NoConfig /\ y = <<0, 0, 0>> /\ steps = 0 /\ trace = <<>>
    /\ burnout_state = NoneVal /\ rhs_log = {} /\ P_const = NoneVal
    /\ volume_at_burnout = NoneVal /\ peak_pressure = 0 /\ assignments = 0
    /\ loop_i = 0 /\ results = NoResults

Init ==
    /\ op = "idle" /\ pc = "idle" /\ exc = "none"
    /\ SolverIdle
    /\ CalibIdle
    /\ viv_call = NoneVal /\ viv_result = [exc |-> "none", val |-> 0]
    /\ validate_call = NoneVal /\ validate_result = [exc |-> "none", ok |-> FALSE]

\* What a right-hand-side evaluation at point p adds to the log.
RhsLogged(p, cfg, Pc, vab) ==
    LET f == ode_system(p, cfg, Pc, vab)
    IN  IF f.Z >= ZOne THEN {[branch |-> f.branch, P_const_seen |-> Pc]} ELSE {}

\* A caller invokes solve_ballistics(cfg): the code up to solve_ivp's first
\* right-hand-side evaluation (lines 119-200, 368-372).
CallSolve(cfg) ==
    /\ op = "idle"
    /\ op' = "solve"
    /\ config' = cfg
    /\ IF SolveEntryExc(cfg) # "none"
         THEN /\ pc' = "raised" /\ exc' = SolveEntryExc(cfg)
              /\ UNCHANGED <<y, steps, trace, burnout_state, rhs_log, P_const,
                             volume_at_burnout, peak_pressure, assignments, loop_i, results>>
         ELSE /\ pc' = "integrating" /\ exc' = "none"
              /\ y' = <<0, 0, 0>> /\ steps' = 0 /\ trace' = << <<0, 0, 0>> >>
              /\ burnout_state' = NoneVal
              /\ P_const' = NoneVal /\ volume_at_burnout' = NoneVal
              /\ peak_pressure' = p_initial_psi /\ assignments' = 0
              /\ rhs_log' = RhsLogged(<<0, 0, 0>>, cfg, NoneVal, NoneVal)
              /\ loop_i' = 0 /\ results' = NoResults
    /\ UNCHANGED calibVars
    /\ UNCHANGED vivVars

\* solve_ivp takes one step; a terminal event, or the end of t_span, ends
\* the integration.
SolveStep ==
    /\ op = "solve" /\ pc = "integrating"
    /\ LET st == IntegratorStep(y, ode_system(y, config, P_const, volume_at_burnout), config)
           over == st.terminal \/ steps + 1 >= TSpanSteps
       IN  /\ y' = st.y_end
           /\ steps' = IF st.at_start THEN steps ELSE steps + 1
           /\ trace' = Append(trace, st.y_end)
           /\ burnout_state' = IF st.burnout THEN st.y_end ELSE NoneVal
           /\ rhs_log' = rhs_log \cup RhsLogged(st.y_new, config, P_const, volume_at_burnout)
           /\ pc' = IF over THEN "peak_loop" ELSE "integrating"
           /\ loop_i' = IF over THEN 1 ELSE loop_i
    /\ UNCHANGED <<op, exc, config, P_const, volume_at_burnout, peak_pressure,
                   assignments, results, calibVars>>
    /\ UNCHANGED vivVars

\* The integrator gives up on its next step (sol.success is False):
\* RuntimeError.
IntegratorFails ==
    /\ op = "solve" /\ pc = "integrating"
    /\ pc' = "raised" /\ exc' = "RuntimeError"
    /\ UNCHANGED <<op, solverVars, calibVars>>
    /\ UNCHANGED vivVars

\* One iteration of `for i in range(len(sol.t))`.
PeakLoopStep ==
    /\ op = "solve" /\ pc = "peak_loop" /\ loop_i <= Len(trace)
    /\ LET b == PeakLoopBody(trace[loop_i], config, peak_pressure, P_const, volume_at_burnout)
       IN  /\ peak_pressure' = b.peak_pressure
           /\ P_const' = b.P_const
           /\ volume_at_burnout' = b.volume_at_burnout
           /\ assignments' = IF b.assigned THEN assignments + 1 ELSE assignments
    /\ loop_i' = loop_i + 1
    /\ UNCHANGED <<op, pc, exc, config, y, steps, trace, burnout_state, rhs_log, results,
                   calibVars>>
    /\ UNCHANGED vivVars

\* The rest of solve_ballistics: the results dictionary is returned.
SolveFinish ==
    /\ op = "solve" /\ pc = "peak_loop" /\ loop_i > Len(trace)
    /\ results' = BuildResults(config, y, steps, burnout_state, peak_pressure,
                               P_const, volume_at_burnout)
    /\ pc' = "returned"
    /\ UNCHANGED <<op, exc, config, y, steps, trace, burnout_state, rhs_log, P_const,
                   volume_at_burnout, peak_pressure, assignments, loop_i, calibVars>>
    /\ UNCHANGED vivVars

\* --------------------------------------------------- calibration actions

\* A caller invokes fit_vivacity_polynomial(ld, cfg, **a).
CallFit(ld, cfg, a, gives_up) ==
    /\ op = "idle"
    /\ op' = "fit" /\ pc' = "fit_entry"
    /\ load_data' = ld /\ config_base' = cfg /\ config_base_0' = cfg /\ fit_args' = a
    /\ UNCHANGED <<exc, solverVars, x0, lower, upper, opt_x, opt_fun, nfev, evaluation,
                   fit_result, fit_exc, seqVars, looVars>>
    /\ unsolved' = gives_up
    /\ UNCHANGED vivVars

\* Lines 78-223: entry validation, initial guess and bounds.
FitEntry ==
    /\ pc = "fit_entry"
    /\ LET e == FitEntryExc(load_data)
           g == IF fit_args.initial_guess = NoneVal
                  THEN DefaultInitialGuess(config_base, fit_args.flags,
                                           fit_args.use_form_function)
                  ELSE [exc |-> "none", x0 |-> Val(fit_args.initial_guess)]
           b == IF fit_args.bounds = NoneVal
                  THEN DefaultBounds(fit_args.flags, fit_args.use_form_function)
                  ELSE Val(fit_args.bounds)
           raised == IF e # "none" THEN e ELSE g.exc
       IN  IF raised # "none"
             THEN /\ pc' = "fit_raised" /\ fit_exc' = raised
                  /\ UNCHANGED <<x0, lower, upper>>
             ELSE /\ pc' = "minimize" /\ fit_exc' = "none"
                  /\ x0' = g.x0 /\ lower' = b.lower /\ upper' = b.upper
    /\ fit_result' = NoFit /\ opt_x' = <<>> /\ opt_fun' = 0 /\ nfev' = 0
    /\ evaluation' = NoEvaluation
    /\ UNCHANGED <<op, exc, solverVars, load_data, config_base, config_base_0, fit_args,
                   seqVars, looVars>>
    /\ UNCHANGED <<vivVars, envVars>>

\* minimize calls objective_with_logging(params) for the (nfev + 1)st time.
Evaluate(params) ==
    objective_with_logging(params, nfev + 1, fit_args.verbose, fit_args.flags,
        fit_args.use_form_function,
        _objective_function(params, load_data, config_base, fit_args.flags,
                            fit_args.use_form_function, PressureReference(load_data),
                            fit_args.include_pressure_penalty, unsolved))

\* The objective has been evaluated at z, with the outcome ev: an exception
\* of the objective or of its logging leaves minimize and the fit; else the
\* better point is kept.
Evaluated(z, ev) ==
    /\ evaluation' = ev /\ nfev' = nfev + 1 /\ config_base' = ev.base
    /\ IF ev.exc # "none" \/ ev.log_exc # "none"
         THEN /\ pc' = "fit_raised"
              /\ fit_exc' = IF ev.exc # "none" THEN ev.exc ELSE ev.log_exc
              /\ UNCHANGED <<opt_x, opt_fun>>
         ELSE /\ pc' = "optimizing" /\ fit_exc' = "none"
              /\ opt_x' = IF nfev = 0 \/ ev.value < opt_fun THEN z ELSE opt_x
              /\ opt_fun' = IF nfev = 0 \/ ev.value < opt_fun THEN ev.value ELSE opt_fun

\* Line 468: minimize checks x0 against the bounds and evaluates the
\* objective at x0.
MinimizeStart ==
    /\ pc = "minimize"
    /\ IF MinimizeEntryExc(x0, lower, upper) # "none"
         THEN /\ pc' = "fit_raised" /\ fit_exc' = MinimizeEntryExc(x0, lower, upper)
              /\ UNCHANGED <<opt_x, opt_fun, nfev, evaluation, config_base>>
         ELSE Evaluated(Clip(x0, lower, upper), Evaluate(Clip(x0, lower, upper)))
    /\ UNCHANGED <<op, exc, solverVars, load_data, config_base_0, fit_args, x0, lower, upper,
                   fit_result, seqVars, looVars>>
    /\ UNCHANGED <<vivVars, envVars>>

\* minimize evaluates the objective at another trial point.
MinimizeProbe ==
    /\ pc = "optimizing" /\ nfev < MaxNfev
    /\ \E z \in ProbePoints(opt_x, lower, upper, nfev) : Evaluated(z, Evaluate(z))
    /\ UNCHANGED <<op, exc, solverVars, load_data, config_base_0, fit_args, x0, lower, upper,
                   fit_result, seqVars, looVars>>
    /\ UNCHANGED <<vivVars, envVars>>

\* The fit call ends with the outcome t.
FitEnds(t) ==
    /\ fit_exc' = t.exc /\ fit_result' = t.result /\ config_base' = t.base
    /\ pc' = IF t.exc = "none" THEN "fit_returned" ELSE "fit_raised"

\* minimize returns opt_result; lines 476-695 of fit_vivacity_polynomial.
FitFinish ==
    /\ pc = "optimizing"
    /\ FitEnds(FitTail(opt_x, load_data, config_base, fit_args.flags,
                       fit_args.use_form_function, unsolved))
    /\ UNCHANGED <<op, exc, solverVars, load_data, config_base_0, fit_args, x0, lower, upper,
                   opt_x, opt_fun, nfev, evaluation, seqVars, looVars>>
    /\ UNCHANGED <<vivVars, envVars>>

\* A caller invokes fit_vivacity_sequential(ld, cfg, ig, bnds,
\* verbose=verbose): Stage 1 starts.
CallSeq(ld, cfg, ig, bnds, verbose, gives_up) ==
    /\ op = "idle"
    /\ op' = "seq" /\ pc' = "fit_entry" /\ stage' = 1
    /\ load_data' = ld /\ config_base' = cfg /\ config_base_0' = cfg
    /\ fit_args' = Stage1Args(ig, bnds, verbose)
    /\ seq_bounds' = bnds
    /\ UNCHANGED <<exc, solverVars, x0, lower, upper, opt_x, opt_fun, nfev, evaluation,
                   fit_result, fit_exc, stage1_result, seq_result, looVars>>
    /\ unsolved' = gives_up
    /\ UNCHANGED vivVars

\* fit_vivacity_sequential after a stage's fit call: an exception of the
\* stage leaves the function; Stage 1 is followed by Stage 2, Stage 2 by the
\* combined result.
SeqContinue ==
    /\ op = "seq" /\ pc \in {"fit_returned", "fit_raised"}
    /\ LET s2 == Stage2Args(fit_result, config_base, seq_bounds, fit_args.verbose)
       IN  IF pc = "fit_raised"
             THEN /\ pc' = "raised" /\ exc' = fit_exc
                  /\ UNCHANGED <<stage, stage1_result, seq_result, fit_args>>
           ELSE IF stage = 1 /\ s2.exc # "none"
             THEN /\ pc' = "raised" /\ exc' = s2.exc
                  /\ stage1_result' = fit_result
                  /\ UNCHANGED <<stage, seq_result, fit_args>>
           ELSE IF stage = 1
             THEN /\ pc' = "fit_entry" /\ stage' = 2 /\ stage1_result' = fit_result
                  /\ fit_args' = s2.args
                  /\ UNCHANGED <<exc, seq_result>>
           ELSE /\ pc' = "returned"
                /\ seq_result' = CombinedResult(stage1_result, fit_result)
                /\ UNCHANGED <<exc, stage, stage1_result, fit_args>>
    /\ UNCHANGED <<op, solverVars, load_data, config_base, config_base_0, x0, lower, upper,
                   opt_x, opt_fun, nfev, evaluation, fit_result, fit_exc, seq_bounds,
                   looVars>>
    /\ UNCHANGED <<vivVars, envVars>>

\* A caller invokes leave_one_out_cross_validation(ld, cfg, fit_kwargs).
CallLoo(ld, cfg, a, gives_up) ==
    /\ op = "idle"
    /\ op' = "loo" /\ pc' = "loo_loop"
    /\ loo_data' = ld /\ config_base' = cfg /\ config_base_0' = cfg
    /\ fit_args' = [a EXCEPT !.verbose = FALSE]
    /\ fold' = 0 /\ fold_results' = <<>>
    /\ UNCHANGED <<exc, solverVars, load_data, x0, lower, upper, opt_x, opt_fun, nfev,
                   evaluation, fit_result, fit_exc, seqVars, loo_result>>
    /\ unsolved' = gives_up
    /\ UNCHANGED vivVars

\* Lines 730-740: the next fold fits on the data without its row.
LooFoldStart ==
    /\ op = "loo" /\ pc = "loo_loop" /\ fold < Len(loo_data.rows)
    /\ load_data' = Drop(loo_data, fold)
    /\ pc' = "fit_entry"
    /\ UNCHANGED <<op, exc, solverVars, config_base, config_base_0, fit_args, x0, lower,
                   upper, opt_x, opt_fun, nfev, evaluation, fit_result, fit_exc, seqVars,
                   looVars>>
    /\ UNCHANGED <<vivVars, envVars>>

\* The fold ends with the outcome f.
FoldEnds(f) ==
    /\ config_base' = f.base
    /\ IF f.exc # "none"
         THEN /\ pc' = "raised" /\ exc' = f.exc
              /\ UNCHANGED <<fold, fold_results>>
         ELSE /\ pc' = "loo_loop" /\ fold' = fold + 1
              /\ fold_results' = Append(fold_results, f.entry)
              /\ UNCHANGED exc

\* Lines 742-790: the fold's prediction, or its NaN entry.
LooFoldEnd ==
    /\ op = "loo" /\ pc \in {"fit_returned", "fit_raised"}
    /\ FoldEnds(LooFold(fold, loo_data, config_base, fit_exc, fit_result, unsolved))
    /\ UNCHANGED <<op, solverVars, load_data, config_base_0, fit_args, x0, lower, upper,
                   opt_x, opt_fun, nfev, evaluation, fit_result, fit_exc, seqVars,
                   loo_data, loo_result>>
    /\ UNCHANGED <<vivVars, envVars>>

\* Lines 792-809: the statistics are returned.
LooFinish ==
    /\ op = "loo" /\ pc = "loo_loop" /\ fold = Len(loo_data.rows)
    /\ loo_result' = LooResult(fold_results)
    /\ pc' = "returned"
    /\ UNCHANGED <<op, exc, solverVars, fitVars, seqVars, loo_data, fold, fold_results>>
    /\ UNCHANGED <<vivVars, envVars>>

\* The caller takes the outcome; the next call starts from scratch.
Return ==
    /\ \/ op \in {"solve", "seq", "loo", "vivacity", "validate"} /\ pc \in {"returned", "raised"}
       \/ op = "fit" /\ pc \in {"fit_returned", "fit_raised"}
    /\ op' = "idle" /\ pc' = "idle" /\ exc' = "none"
    /\ config' = NoConfig /\ y' = <<0, 0, 0>> /\ steps' = 0 /\ trace' = <<>>
    /\ burnout_state' = NoneVal /\ rhs_log' = {} /\ P_const' = NoneVal
    /\ volume_at_burnout' = NoneVal /\ peak_pressure' = 0 /\ assignments' = 0
    /\ loop_i' = 0 /\ results' = NoResults
    /\ load_data' = NoData /\ config_base' = NoConfig /\ config_base_0' = NoConfig
    /\ fit_args' = NoArgs /\ x0' = <<>> /\ lower' = <<>> /\ upper' = <<>>
    /\ opt_x' = <<>> /\ opt_fun' = 0 /\ nfev' = 0 /\ evaluation' = NoEvaluation
    /\ fit_result' = NoFit /\ fit_exc' = "none"
    /\ stage' = 0 /\ stage1_result' = NoFit /\ seq_result' = NoSeq
    /\ seq_bounds' = NoneVal
    /\ loo_data' = NoData /\ fold' = 0 /\ fold_results' = <<>> /\ loo_result' = NoLoo
    /\ unsolved' = {}
    /\ viv_call' = NoneVal /\ viv_result' = [exc |-> "none", val |-> 0]
    /\ validate_call' = NoneVal /\ validate_result' = [exc |-> "none", ok |-> FALSE]

\* The arguments calc_vivacity is called with: burn fractions on, inside and
\* outside [0, 1], coefficient tuples inside the fit's default bounds, the
\* three modes and every grain geometry.
VivacityInputs ==
    [Z : {-100, 0, 500, 900, 1000, 1100},
     Lambda_base : {5},
     coeffs : {<<1, 0, 0, 0>>, <<1, -1, 0, 0>>, <<1, -2, 0, 0>>, <<1, -1, 0, 0, 0, 0>>},
     T_prop_K : {2940, 3100},
     sigma : {0, 4},
     mode : {"polynomial", "form_function", "hybrid"},
     geometry : {"spherical", "single-perf", "neutral", "7-perf"},
     p_psi : {NoneVal, Some(4)},
     alpha : {0, 1},
     Lambda_base_hybrid : {0, 5},
     coeffs_hybrid : {<<0, 0, 0, 0>>, <<1, -2, 0, 0>>}]

\* A caller invokes calc_vivacity(...), which returns or raises at once.
CallVivacity(a) ==
    /\ op = "idle"
    /\ op' = "vivacity"
    /\ viv_call' = Some(a)
    /\ viv_result' = calc_vivacity(a.Z, a.Lambda_base, a.coeffs, a.T_prop_K, a.sigma, a.mode = "form_function", a.geometry, a.p_psi, a.alpha, a.mode = "hybrid", a.Lambda_base_hybrid, a.coeffs_hybrid)
    /\ pc' = IF viv_result'.exc = "none" THEN "returned" ELSE "raised"
    /\ exc' = viv_result'.exc
    /\ UNCHANGED <<solverVars, calibVars, validate_call, validate_result>>

\* The arguments validate_vivacity_positive is called with: shape vectors
\* that stay positive, touch zero and change sign on the sampled range, both
\* modes, every branch of form_function, and coarse and default samplings.
ValidateInputs ==
    [Lambda_base : {1, 5},
     coeffs : {<<1, -1, 0, 0>>, <<1, -3, 0, 0>>, <<1, -2, 0, 0>>, <<1, 0, 0, 0>>, <<0, 0, 0, 0>>, <<1, 1, -2, 0>>},
     T_prop_K : {2940, 3100},
     sigma : {0, 4},
     n_points : {2, 10, 50},
     use_form_function : BOOLEAN,
     geometry : {"spherical", "single-perf", "neutral", "7-perf", "flake"},
     alpha : {0, 1}]

\* A caller invokes validate_vivacity_positive(...), which returns or raises
\* at once.
CallValidate(a) ==
    /\ op = "idle"
    /\ op' = "validate"
    /\ validate_call' = Some(a)
    /\ validate_result' = validate_vivacity_positive(a.Lambda_base, a.coeffs, a.T_prop_K, a.sigma, a.n_points, a.use_form_function, a.geometry, a.alpha)
    /\ pc' = IF validate_result'.exc = "none" THEN "returned" ELSE "raised"
    /\ exc' = validate_result'.exc
    /\ UNCHANGED <<solverVars, calibVars, viv_call, viv_result>>

NextSolve ==
    \/ \E cfg \in SolveConfigs : CallSolve(cfg)
    \/ SolveStep
    \/ IntegratorFails
    \/ PeakLoopStep
    \/ SolveFinish
    \/ Return

NextFit ==
    \/ \E i \in FitInputs : \E g \in IntegratorFailures : CallFit(i.load_data, i.config_base, i.args, g)
    \/ FitEntry
    \/ MinimizeStart
    \/ MinimizeProbe
    \/ FitFinish
    \/ \E i \in SeqInputs : \E g \in IntegratorFailures : CallSeq(i.load_data, i.config_base, i.initial_guess, i.bounds, i.verbose, g)
    \/ SeqContinue
    \/ \E i \in LooInputs : \E g \in IntegratorFailures : CallLoo(i.load_data, i.config_base, i.args, g)
    \/ LooFoldStart
    \/ LooFoldEnd
    \/ LooFinish
    \/ Return

NextVivacity ==
    \/ \E a \in VivacityInputs : CallVivacity(a)
    \/ \E a \in ValidateInputs : CallValidate(a)
    \/ Return

\* solve_ballistics called directly.
Spec == Init /\ [][NextSolve]_vars

\* The calibration engine: fit, sequential fit and cross-validation calls.
SpecFit == Init /\ [][NextFit]_vars

\* The burn-rate functions called directly.
SpecVivacity == Init /\ [][NextVivacity]_vars

\* ------------------------------------------------------------------ claims

\* The state machine and the function agree on what solve_ballistics returns.
SolveAgrees ==
    (op = "solve" /\ pc = "returned") => results = solve_ballistics(config, TRUE).res

\* C1: solve_ballistics keeps integrating after burnout and only the muzzle
\* exit ends the integration, so that the final position of every returned
\* result is the effective barrel length.
C1_FinalPositionIsBarrelEnd ==
    (op = "solve" /\ pc = "returned")
        => results.final_x = effective_barrel_length_in(config)

\* C2: once the burn fraction has reached 1.0, every pressure evaluation of
\* the right-hand side uses the polytropic law with an assigned P_const.
C2_PolytropicAfterBurnout ==
    \A e \in rhs_log : e.branch = "polytropic" /\ e.P_const_seen # NoneVal


\* The configuration of the round trip: a clone of the base configuration
\* with the row's charge and every fitted parameter of fx applied.
RoundTripConfig(cb, row, fx) ==
    [cb EXCEPT
        !.charge_mass_gr = row.charge_grains,
        !.propellant.Lambda_base = fx.Lambda_base_fit,
        !.propellant.poly_coeffs = fx.coeffs_fit,
        !.propellant.alpha = OrElse(fx.alpha_fit, @),
        !.propellant.temp_sensitivity_sigma_per_K = OrElse(fx.temp_sens_fit, @),
        !.propellant.covolume_m3_per_kg = OrElse(fx.covolume_fit, @),
        !.bore_friction_psi = OrElse(fx.bore_fric_fit, @),
        !.start_pressure_psi = OrElse(fx.start_p_fit, @),
        !.h_base = OrElse(fx.h_base_fit, @)]

\* The prediction v_pred is what the run r of the round-trip configuration gives.
SameVelocity(v_pred, r) == r.exc = "none" => v_pred = r.res.muzzle_velocity_fps

\* The predictions of the final recomputation `rows` round-trip.
RoundTrips(data, base, fx, rows, fails) ==
    rows.exc = "none" =>
        \A i \in 1..Len(data.rows) :
            SameVelocity(rows.predicted_velocities[i],
                         solve_ballistics(RoundTripConfig(base, data.rows[i], fx),
                                          Converges(RoundTripConfig(base, data.rows[i], fx), fails)))

\* The final recomputation (lines 529-620) for the fitted values fx.
Recomputed(data, base, flags, fx, fails) ==
    RoundTrips(data, base, fx,
        FinalRows(1, data, fx, flags,
            [exc |-> "none", predicted_velocities |-> <<>>, residuals |-> <<>>,
             weights |-> <<>>, solved |-> <<>>, base |-> base], fails), fails)

\* C3: the predicted velocities that the final recomputation of
\* fit_vivacity_polynomial computes for the optimizer's result are, row by
\* row, the muzzle velocities solve_ballistics gives for the base
\* configuration with the row's charge and all the fitted parameters applied.
C3_PredictionsRoundTrip ==
    (pc = "optimizing" /\ ExtractFit(opt_x, fit_args.flags, fit_args.use_form_function).exc = "none")
        => Recomputed(load_data, config_base, fit_args.flags,
                      ExtractFit(opt_x, fit_args.flags, fit_args.use_form_function), unsolved)

\* C4: a fit_vivacity_polynomial call that passed the entry validation does
\* not raise: it returns a fit-result dictionary.
C4_FitAlwaysReturns ==
    pc = "fit_raised" => FitEntryExc(load_data) # "none"

\* C5: when the simulator raises for a row, whatever the exception type, the
\* objective returns the penalty 1e10 and no exception leaves it.
C5_SimulatorFailureIsPenalty ==
    evaluation.row_failed => (evaluation.exc = "none" /\ evaluation.value = PENALTY)

\* C5 witness: an objective evaluation whose simulator run raised
\* RuntimeError (the integrator gave up on a row of a configuration that
\* passes the entry checks of solve_ballistics).
C5_Witness ==
    /\ evaluation.row_failed
    /\ evaluation.solved[Len(evaluation.solved)].charge_mass_gr \in unsolved
    /\ SolveEntryExc(evaluation.solved[Len(evaluation.solved)]) = "none"
    /\ evaluation.value = PENALTY

\* C6: when validate_vivacity_positive answers False for a candidate, the
\* objective returns the penalty and solve_ballistics is not called for it.
C6_ValidationBeforeSimulation ==
    evaluation.validated = "failed" =>
        /\ evaluation.exc = "none" /\ evaluation.value = PENALTY
        /\ evaluation.solved = <<>> /\ evaluation.penalty_solved = <<>>

\* C6 witness: an objective evaluation whose candidate failed the positivity
\* check (a 7-perf grain, whose form function is 0 from Z = 0.9 on).
C6_Witness ==
    /\ nfev >= 1 /\ evaluation.validated = "failed"
    /\ evaluation.params # <<>>

\* C7: with the default initial guess and the default bounds, the initial
\* guess and both bound vectors have the same length: the base parameters
\* (2 in form-function mode, 7 in polynomial mode) plus one per enabled flag.
C7_VectorsHaveOneEntryPerFlag ==
    (pc = "minimize" /\ fit_args.initial_guess = NoneVal /\ fit_args.bounds = NoneVal)
        => /\ Len(x0) = (IF fit_args.use_form_function THEN 2 ELSE 7)
                           + Cardinality(fit_args.flags)
           /\ Len(lower) = Len(x0)
           /\ Len(upper) = Len(x0)

\* The place (from 1) of a flag's entry in a vector laid out as the initial
\* guess is: the base parameters, then one entry per enabled flag, in the
\* declared order.
FlagOrder == <<"fit_temp_sensitivity", "fit_bore_friction", "fit_start_pressure",
               "fit_covolume", "fit_h_base", "fit_k_param", "fit_p_primer">>
PlaceOf(flag, flags, use_form_function) ==
    (IF use_form_function THEN 2 ELSE 7)
      + Cardinality({ k \in 1..Len(FlagOrder) :
                        /\ FlagOrder[k] \in flags
                        /\ k <= (CHOOSE j \in 1..Len(FlagOrder) : FlagOrder[j] = flag) })

\* The configuration c carries the candidate's value of a free parameter.
Carries(c, params, flags, use_form_function) ==
    /\ c.propellant.Lambda_base = params[1]
    /\ "fit_temp_sensitivity" \in flags =>
          c.propellant.temp_sensitivity_sigma_per_K
            = params[PlaceOf("fit_temp_sensitivity", flags, use_form_function)]
    /\ "fit_bore_friction" \in flags =>
          c.bore_friction_psi = params[PlaceOf("fit_bore_friction", flags, use_form_function)]
    /\ "fit_start_pressure" \in flags =>
          c.start_pressure_psi = params[PlaceOf("fit_start_pressure", flags, use_form_function)]
    /\ "fit_covolume" \in flags =>
          c.propellant.covolume_m3_per_kg
            = params[PlaceOf("fit_covolume", flags, use_form_function)]
    /\ "fit_h_base" \in flags =>
          c.h_base = params[PlaceOf("fit_h_base", flags, use_form_function)]

\* C8: every configuration the objective hands to solve_ballistics carries
\* its row's charge and the candidate's value of every free parameter,
\* h_base included.
C8_RowConfigCarriesCandidate ==
    (Len(evaluation.params) >= 2 + Cardinality(fit_args.flags)) =>
        \A i \in 1..Len(evaluation.solved) :
            /\ evaluation.solved[i].charge_mass_gr = load_data.rows[i].charge_grains
            /\ Carries(evaluation.solved[i], evaluation.params, fit_args.flags,
                       fit_args.use_form_function)

\* C9: a fit_vivacity_sequential call ends by returning the final result
\* with both stage results, the Stage-2 baseline and shape values being the
\* Stage-1 values.
C9_SequentialReturnsBothStages ==
    (op = "seq" /\ pc \in {"returned", "raised"}) =>
        /\ pc = "returned"
        /\ seq_result.stage1_result.returned /\ seq_result.stage2_result.returned
        /\ seq_result.final = seq_result.stage2_result
        /\ seq_result.stage2_result.Lambda_base = seq_result.stage1_result.Lambda_base
        /\ SubSeq(seq_result.stage2_result.coeffs, 1, 4)
             = SubSeq(seq_result.stage1_result.coeffs, 1, 4)

\* C10: the fit, the cross-validation and every objective evaluation leave
\* the caller's base configuration as it was at the call.
C10_BaseConfigUnchanged ==
    config_base = config_base_0

\* C10 witness: an objective evaluation that ran its row loop and its
\* pressure-penalty block, which writes the candidate into the propellant of
\* its clone.
C10_Witness ==
    /\ op = "fit" /\ evaluation.penalty_solved # <<>> /\ Len(evaluation.solved) = 3
    /\ evaluation.penalty_solved[1].propellant # config_base.propellant

\* The entries k of a fold list that carry a prediction.
ValidFolds(entries) == { k \in 1..Len(entries) : entries[k].predicted # NoneVal }

\* C11: leave_one_out_cross_validation never aborts: it records one entry
\* per row, in row order, an entry without prediction (NaN) for a fold whose
\* refit or prediction raised, and only its aggregates leave the NaN folds
\* out.
C11_LooOneEntryPerRow ==
    op = "loo" =>
        /\ pc # "raised"
        /\ Len(fold_results) = fold
        /\ \A k \in 1..Len(fold_results) :
              /\ fold_results[k].fold = k - 1
              /\ fold_results[k].charge = loo_data.rows[k].charge_grains
              /\ fold_results[k].actual = loo_data.rows[k].mean_velocity_fps
              /\ fold_results[k].predicted = NoneVal => fold_results[k].error = NoneVal
        /\ pc = "returned" =>
              /\ loo_result.fold_results = fold_results
              /\ loo_result.n_folds = Len(loo_data.rows)
              /\ Len(loo_result.fold_results) = Len(loo_data.rows)
              /\ loo_result.n_valid_folds = Cardinality(ValidFolds(fold_results))
              /\ (ValidFolds(fold_results) = {}) <=> (loo_result.loo_rmse = NoneVal)

\* The configuration c, as solve_ballistics reads it, carries every value
\* that the fit result res holds.
ReadsRefit(c, res) ==
    /\ c.charge_mass_gr # 0
    /\ c.propellant.Lambda_base = res.Lambda_base
    /\ res.alpha # NoneVal => c.propellant.alpha = Val(res.alpha)
    /\ res.temp_sensitivity_sigma_per_K # NoneVal =>
          c.propellant.temp_sensitivity_sigma_per_K = Val(res.temp_sensitivity_sigma_per_K)
    /\ res.covolume_m3_per_kg # NoneVal =>
          c.propellant.covolume_m3_per_kg = Val(res.covolume_m3_per_kg)
    /\ res.bore_friction_psi # NoneVal => c.bore_friction_psi = Val(res.bore_friction_psi)
    /\ res.start_pressure_psi # NoneVal => c.start_pressure_psi = Val(res.start_pressure_psi)
    /\ res.h_base # NoneVal => c.h_base = Val(res.h_base)

\* The held-out row's configuration for the refit outcome t reads t's result.
HeldOutReadsRefit(base, test_point, t) ==
    t.exc = "none" =>
        ReadsRefit(LooTestConfig(base, test_point, t.result).clone, t.result)

\* C12: in a fold of leave_one_out_cross_validation, the configuration
\* built for the held-out row from the result of the fold's refit (the
\* dictionary lines 529-695 build for the optimizer's point) carries every
\* refit parameter at the place solve_ballistics reads it.
C12_HeldOutUsesRefit ==
    (/\ op = "loo" /\ pc = "fit_raised" /\ opt_x # <<>>
     /\ ExtractFit(opt_x, fit_args.flags, fit_args.use_form_function).exc = "none")
        => HeldOutReadsRefit(config_base, loo_data.rows[fold + 1],
               FitValidated(load_data, config_base, fit_args.flags,
                   ExtractFit(opt_x, fit_args.flags, fit_args.use_form_function),
                   [exc |-> "none", ok |-> TRUE], unsolved))

\* The dataset d has a charge or a velocity that is not positive.
HasNonPositive(d) ==
    \E i \in 1..Len(d.rows) :
        \/ d.rows[i].charge_grains <= 0
        \/ d.rows[i].mean_velocity_fps <= 0

\* C13: a fit_vivacity_polynomial call on a dataset with a non-positive
\* charge or velocity raises at entry: it never gets to the optimizer.
C13_NonPositiveDataRejected ==
    (op = "fit" /\ pc # "fit_entry" /\ HasNonPositive(load_data))
        => (pc = "fit_raised" /\ x0 = <<>> /\ nfev = 0)

\* The dataset d lacks a required column or has fewer than three rows.
BadShape(d) ==
    \/ ~({"charge_grains", "mean_velocity_fps"} \subseteq d.columns)
    \/ Len(d.rows) < 3

\* C14: a fit_vivacity_polynomial call on a dataset without a required
\* column or with fewer than three rows raises ValueError at entry: no
\* initial guess is built, the optimizer is not called and the objective is
\* not evaluated.
C14_BadShapeRaisesAtEntry ==
    (pc \in {"minimize", "optimizing", "fit_returned", "fit_raised"} /\ BadShape(load_data))
        => /\ pc = "fit_raised" /\ fit_exc = "ValueError"
           /\ x0 = <<>> /\ nfev = 0 /\ evaluation = NoEvaluation

\* C14 witness: a fit call on three rows without the mean_velocity_fps
\* column has raised ValueError.
C14_Witness ==
    /\ op = "fit" /\ pc = "fit_raised" /\ fit_exc = "ValueError"
    /\ Len(load_data.rows) = 3 /\ "mean_velocity_fps" \notin load_data.columns
    /\ nfev = 0

\* The fit result res has a secondary parameter's key only when the
\* parameter's flag is in flags.
KeysFollowFlags(res, flags) ==
    /\ res.temp_sensitivity_sigma_per_K # NoneVal => "fit_temp_sensitivity" \in flags
    /\ res.bore_friction_psi # NoneVal => "fit_bore_friction" \in flags
    /\ res.start_pressure_psi # NoneVal => "fit_start_pressure" \in flags
    /\ res.covolume_m3_per_kg # NoneVal => "fit_covolume" \in flags
    /\ res.h_base # NoneVal => "fit_h_base" \in flags

\* C15: a fit_vivacity_polynomial call that passed the entry validation with
\* the default initial guess and bounds returns a result whose secondary
\* keys are those of the enabled flags, the fitted vector having the base
\* parameter count (2 in form-function mode, 7 in polynomial mode) when no
\* flag is enabled.
C15_ResultKeysFollowFlags ==
    (/\ op = "fit" /\ pc \in {"fit_returned", "fit_raised"}
     /\ FitEntryExc(load_data) = "none"
     /\ fit_args.flags \subseteq (FlagNames \ {"fit_k_param", "fit_p_primer"}))
        => /\ pc = "fit_returned"
           /\ KeysFollowFlags(fit_result, fit_args.flags)
           /\ fit_args.flags = {} =>
                 Len(opt_x) = IF fit_args.use_form_function THEN 2 ELSE 7

\* C16: solve_ballistics called with a configuration whose initial free
\* volume V_0 (case volume minus the volume of the charge) is not positive
\* raises ValueError before the first right-hand-side evaluation and the
\* first integration step.
C16_NonPositiveVolumeRaises ==
    (op = "solve" /\ InitialVolume(config) <= 0)
        => /\ pc = "raised" /\ exc = "ValueError"
           /\ trace = <<>> /\ steps = 0 /\ rhs_log = {} /\ results = NoResults

\* C16 witness: solve_ballistics has raised ValueError for a charge that
\* fills the case exactly (V_0 = 0).
C16_Witness ==
    /\ op = "solve" /\ pc = "raised" /\ exc = "ValueError"
    /\ InitialVolume(config) = 0 /\ config.heat_loss_model = "convective"

\* C17: solve_ballistics never returns a result for a configuration whose
\* effective barrel length is not positive.
C17_NonPositiveBarrelRejected ==
    (op = "solve" /\ effective_barrel_length_in(config) <= 0) => pc # "returned"

\* C18: a result of solve_ballistics has exactly one of the keys
\* burnout_distance_from_bolt_in and muzzle_burn_percentage: the burnout
\* distance when the burnout event (Z = 1) was reached, the burn percentage
\* otherwise.
C18_BurnoutOrPercentage ==
    (op = "solve" /\ pc = "returned") =>
        /\ (results.burnout_distance_from_bolt_in # NoneVal)
             # (results.muzzle_burn_percentage # NoneVal)
        /\ (results.burnout_distance_from_bolt_in # NoneVal) <=> (burnout_state # NoneVal)

\* The pressure of the right-hand side for the state p, the closure
\* variables being Pc and vab.
RhsPressure(p, cfg, Pc, vab) == ode_system(p, cfg, Pc, vab).P

\* C19: for every state of the solution, compute_pressure gives the pressure
\* that the right-hand side ode_system computes for the same state (with the
\* same values of the closure variables P_const and volume_at_burnout).
C19_ReportedPressureIsRhsPressure ==
    (op = "solve" /\ pc \in {"peak_loop", "returned"}) =>
        \A i \in 1..Len(trace) :
            compute_pressure(trace[i][1], trace[i][2], trace[i][3], config,
                             P_const, volume_at_burnout)
              = RhsPressure(trace[i], config, P_const, volume_at_burnout)

\* C20: whenever calc_vivacity returns, whatever the burn fraction, the mode,
\* the geometry and the parameters, the value it returns is >= 0.
C20_VivacityNonNegative ==
    (op = "vivacity" /\ pc = "returned") => viv_result.val >= 0

\* What calc_vivacity does with the arguments a.
VivacityAt(a) == calc_vivacity(a.Z, a.Lambda_base, a.coeffs, a.T_prop_K, a.sigma, a.mode = "form_function", a.geometry, a.p_psi, a.alpha, a.mode = "hybrid", a.Lambda_base_hybrid, a.coeffs_hybrid)

\* C21: calc_vivacity clamps Z into [0, 1]: a call with Z >= 1 returns
\* exactly 0 in every mode and for every parameter combination, and a call
\* with Z < 0 does what the call with Z = 0 does.
C21_ClampedAndZeroAfterBurnout ==
    op = "vivacity" =>
        /\ Val(viv_call).Z >= ZOne => (pc = "returned" /\ viv_result = [exc |-> "none", val |-> 0])
        /\ Val(viv_call).Z <= 0 => viv_result = VivacityAt([Val(viv_call) EXCEPT !.Z = 0])

\* C21: a polynomial-mode call beyond Z = 1 with a 6-tuple of coefficients
\* has returned 0.
C21_Witness ==
    /\ op = "vivacity" /\ pc = "returned"
    /\ Val(viv_call).Z > ZOne /\ Val(viv_call).mode = "polynomial"
    /\ Len(Val(viv_call).coeffs) = 6 /\ Val(viv_call).Lambda_base > 0
    /\ viv_result.val = 0

\* The shape polynomial of the call a is <= 0 at one of the sampled Z.
NonPositiveAtSample(a) == \E k \in 0..a.n_points - 1 : PolyValue(a.coeffs, LinspaceZ(k, a.n_points)) <= 0

\* What a polynomial-mode call of validate_vivacity_positive with a positive
\* baseline answers: False for a shape that is <= 0 at a sampled Z, True for
\* the default shape (1, -1, 0, 0).
AnswersByShape(a, r) ==
    /\ r.exc = "none"
    /\ NonPositiveAtSample(a) => ~r.ok
    /\ a.coeffs = <<1, -1, 0, 0>> => r.ok

\* C22 as stated: validate_vivacity_positive samples Z on [0, 0.99), every
\* sample below 0.99, returns False for every shape vector whose polynomial
\* is <= 0 at a sampled Z with a positive baseline, and True for the
\* default shape.
C22_SamplesBelowEndpoint ==
    (op = "validate" /\ ~Val(validate_call).use_form_function /\ Val(validate_call).Lambda_base > 0) =>
        /\ \A k \in 0..Val(validate_call).n_points - 1 :
              /\ LinspaceZ(k, Val(validate_call).n_points) >= 0
              /\ LinspaceZ(k, Val(validate_call).n_points) < 990
        /\ AnswersByShape(Val(validate_call), validate_result)

\* C22 amended: validate_vivacity_positive samples Z on [0, 0.99] with both
\* end points among the samples, returns False for every shape vector whose
\* polynomial is <= 0 at a sampled Z with a positive baseline, and True for
\* the default shape.
C22_SamplesClosedRange ==
    (op = "validate" /\ ~Val(validate_call).use_form_function /\ Val(validate_call).Lambda_base > 0) =>
        /\ \A k \in 0..Val(validate_call).n_points - 1 :
              /\ LinspaceZ(k, Val(validate_call).n_points) >= 0
              /\ LinspaceZ(k, Val(validate_call).n_points) <= 990
        /\ LinspaceZ(0, Val(validate_call).n_points) = 0
        /\ LinspaceZ(Val(validate_call).n_points - 1, Val(validate_call).n_points) = 990
        /\ AnswersByShape(Val(validate_call), validate_result)

\* C22: the shape (1, -3, 0, 0), sampled at Z = 0 and Z = 0.99 only, has been
\* rejected: its polynomial is positive at 0 and negative at 0.99.
C22_Witness ==
    /\ op = "validate" /\ pc = "returned"
    /\ ~Val(validate_call).use_form_function /\ Val(validate_call).Lambda_base > 0
    /\ Val(validate_call).coeffs = <<1, -3, 0, 0>> /\ Val(validate_call).n_points = 2
    /\ PolyValue(Val(validate_call).coeffs, 0) > 0
    /\ ~validate_result.ok

\* C23: a solve_ballistics call with a heat-loss model BallisticsConfig
\* accepts ("empirical" or "convective") and a positive free chamber volume
\* is simulated: it does not raise before the integration starts.
C23_BothHeatLossModelsSimulated ==
    (/\ op = "solve"
     /\ config.heat_loss_model \in {"empirical", "convective"}
     /\ InitialVolume(config) > 0)
        => (trace # <<>> /\ exc # "NotImplementedError")

\* The burn rate dZ/dt of the polynomial form at the point p: the
\* temperature-corrected baseline times (a + bZ + cZ^2 + dZ^3), times the
\* pressure of the right-hand side.
PolynomialBurnRate(p, cfg, P) ==
    (calc_vivacity(p[1], cfg.propellant.Lambda_base, cfg.propellant.poly_coeffs, SolverTempK(cfg.temperature_f), cfg.propellant.temp_sensitivity_sigma_per_K, FALSE, cfg.propellant.grain_geometry, NoneVal, 0, FALSE, 0, <<0, 0, 0, 0>>).val * P) \div LamDiv

\* C24: for a configuration that carries four polynomial coefficients and
\* does not ask for the form function, the burn rate solve_ballistics
\* integrates at every point of the solution is the polynomial burn rate of
\* those coefficients.
C24_IntegratesPolynomialBurnRate ==
    (/\ op = "solve" /\ pc \in {"integrating", "peak_loop", "returned"}
     /\ Len(config.propellant.poly_coeffs) = 4
     /\ config.use_form_function # Some(TRUE))
        => \A i \in 1..Len(trace) :
              ode_system(trace[i], config, NoneVal, NoneVal).dZ
                = PolynomialBurnRate(trace[i], config, ode_system(trace[i], config, NoneVal, NoneVal).P)

\* C25: at every point of a solution of solve_ballistics for a barrel of
\* positive effective length, the velocity is >= 0 and the position lies in
\* [0, effective barrel length].
C25_VelocityAndPositionInRange ==
    (/\ op = "solve" /\ pc \in {"integrating", "peak_loop", "returned"}
     /\ effective_barrel_length_in(config) > 0)
        => \A i \in 1..Len(trace) :
              /\ trace[i][2] >= 0
              /\ trace[i][3] >= 0
              /\ trace[i][3] <= effective_barrel_length_in(config)

\* C26: a result of solve_ballistics that reports
\* burnout_distance_from_bolt_in reports a distance strictly between 0 and
\* the barrel length (stated for barrels longer than the cartridge and no
\* bore friction, where the bullet never moves backwards).
C26_BurnoutDistanceInsideBarrel ==
    (/\ op = "solve" /\ pc = "returned"
     /\ effective_barrel_length_in(config) > 0
     /\ config.bore_friction_psi = 0
     /\ results.burnout_distance_from_bolt_in # NoneVal)
        => /\ Val(results.burnout_distance_from_bolt_in) > 0
           /\ Val(results.burnout_distance_from_bolt_in) < config.barrel_length_in

\* A vector of n distinct entries: entry i (from 1) is 100 + i.
Probe(n) == [i \in 1..n |-> 100 + i]

\* The value the objective uses for a flag's parameter, given what it unpacked.
ObjectiveValue(ov, flag) ==
    CASE flag = "fit_temp_sensitivity" -> ov.temp_sens
      [] flag = "fit_bore_friction" -> ov.bore_fric
      [] flag = "fit_start_pressure" -> ov.start_p
      [] flag = "fit_covolume" -> ov.covolume
      [] flag = "fit_h_base" -> ov.h_base

\* The fitted value the extraction gives a flag's parameter.
ExtractedValue(fx, flag) ==
    CASE flag = "fit_temp_sensitivity" -> fx.temp_sens_fit
      [] flag = "fit_bore_friction" -> fx.bore_fric_fit
      [] flag = "fit_start_pressure" -> fx.start_p_fit
      [] flag = "fit_covolume" -> fx.covolume_fit
      [] flag = "fit_h_base" -> fx.h_base_fit

\* The configuration's own value of a flag's parameter (the default guess).
OwnValue(cb, flag) ==
    CASE flag = "fit_temp_sensitivity" -> cb.propellant.temp_sensitivity_sigma_per_K
      [] flag = "fit_bore_friction" -> cb.bore_friction_psi
      [] flag = "fit_start_pressure" -> cb.start_pressure_psi
      [] flag = "fit_covolume" -> cb.propellant.covolume_m3_per_kg
      [] flag = "fit_h_base" -> cb.h_base

\* On a vector of n distinct entries, the objective (ov) and the extraction
\* (fx) both take the parameter of `flag` from the place where its initial
\* guess stands.
SamePlace(ov, fx, n, flag, flags, use_form_function) ==
    /\ ov.exc = "none" /\ fx.exc = "none"
    /\ ObjectiveValue(ov, flag) = Probe(n)[PlaceOf(flag, flags, use_form_function)]
    /\ ExtractedValue(fx, flag) = Some(Probe(n)[PlaceOf(flag, flags, use_form_function)])

\* C27: in a fit with the default initial guess and bounds, every free
\* secondary parameter has one vector position in both modes: its initial
\* guess stands there, the objective reads it from there and its fitted
\* value is extracted from there.
C27_OnePositionPerParameter ==
    (/\ op = "fit" /\ pc = "minimize"
     /\ fit_args.initial_guess = NoneVal /\ fit_args.bounds = NoneVal
     /\ fit_args.flags \subseteq (FlagNames \ {"fit_k_param", "fit_p_primer"}))
        => \A flag \in fit_args.flags :
              /\ x0[PlaceOf(flag, fit_args.flags, fit_args.use_form_function)] = OwnValue(config_base, flag)
              /\ SamePlace(UnpackParams(Probe(Len(x0)), config_base, fit_args.flags, fit_args.use_form_function),
                           ExtractFit(Probe(Len(x0)), fit_args.flags, fit_args.use_form_function),
                           Len(x0), flag, fit_args.flags, fit_args.use_form_function)

\* The validation of the values fx, extracted for return, as the fit calls it.
FinalValidation(cb, fx) ==
    validate_vivacity_positive(fx.Lambda_base_fit, fx.coeffs_fit, FitTempK(cb.temperature_f), OrElse(fx.temp_sens_fit, cb.propellant.temp_sensitivity_sigma_per_K), 100, FALSE, "spherical", 0)

\* C28: when the optimisation of a fit has ended, the Lambda_base and coeffs
\* extracted for the result pass validate_vivacity_positive, and the call
\* returns them.
C28_ReturnedPolynomialIsPositive ==
    (/\ op = "fit" /\ pc \in {"fit_returned", "fit_raised"} /\ opt_x # <<>>
     /\ ExtractFit(opt_x, fit_args.flags, fit_args.use_form_function).exc = "none")
        => /\ FinalValidation(config_base, ExtractFit(opt_x, fit_args.flags, fit_args.use_form_function)) = [exc |-> "none", ok |-> TRUE]
           /\ pc = "fit_returned"

\* C29: in a result of solve_ballistics, peak_pressure_psi is at least the
\* initial pressure, at least muzzle_pressure_psi and at least every element
\* of the pressure trace a call with return_trace=True returns.
C29_PeakPressureIsMaximum ==
    (op = "solve" /\ pc = "returned") =>
        /\ results.peak_pressure_psi >= p_initial_psi
        /\ results.peak_pressure_psi >= results.muzzle_pressure_psi
        /\ \A i \in 1..Len(trace) :
              results.peak_pressure_psi >= PressureTrace(trace, config, P_const, volume_at_burnout)[i]

\* C30: for every grain geometry form_function names, a positive Lambda_base
\* and alpha >= 0, validate_vivacity_positive in form-function mode returns
\* True.
C30_FormFunctionModeValidates ==
    (/\ op = "validate"
     /\ Val(validate_call).use_form_function
     /\ Val(validate_call).geometry \in {"spherical", "single-perf", "neutral", "7-perf"}
     /\ Val(validate_call).Lambda_base > 0 /\ Val(validate_call).alpha >= 0)
        => validate_result = [exc |-> "none", ok |-> TRUE]

=============================================================================
